---- MODULE Spec2Model ----
(***************************************************************************)
(* Computation-graph node protocol of neuronika: forward nodes (Division,  *)
(* MultiConcatenate, Unsqueeze) with their cached data, and the backward   *)
(* nodes that push reduced gradients into their operands' accumulators.     *)
(*                                                                         *)
(* Tensors are records [shape, v]: shape is the sequence of extents and v  *)
(* the elements in row-major order.  Elements are f32 in the source; here  *)
(* they are exact fractions <<n, d>> in lowest terms, d = 0 standing for   *)
(* the non-finite values (<<1,0>> = inf, <<-1,0>> = -inf, <<0,0>> = NaN).  *)
(* The inputs the specifications draw are small dyadic numbers, for which  *)
(* f32 arithmetic is exact (see ExactF32).  Axes are 0-based as in the     *)
(* source; sequences are 1-based, hence the "+ 1" where an axis indexes a  *)
(* shape.                                                                  *)
(***************************************************************************)
EXTENDS Integers, Sequences, FiniteSets, TLC

VARIABLES
    nodes,      \* the graph: node id -> [kind, operands, axis, variant, shape, ...]
    data,       \* forward node: the `data` RefCell
    computed,   \* forward node: the `computed` Cell
    gradient,   \* backward node: the `gradient` RefCell<Option<..>>: <<>> or <<t>>
    overwrite,  \* backward node: the `overwrite` Cell
    buffer,     \* division backward nodes: the scratch `buffer`
    panicked,   \* TRUE once a call ended in a panic (the pass is aborted)
    pushed,     \* per node: what has been pushed into it since its flag was last set true
    stale,      \* per node: an operand's data has changed since the node was computed
    last,       \* the last call made on a forward node: [op, node, hit]
    pass,       \* the backward pass under way: [no, todo]
    optim       \* an optimizer's learning rate and the schedulers bound to it

vars ==
    <<nodes, data, computed, gradient, overwrite, buffer, panicked, pushed, stale, last,
      pass, optim>>

-----------------------------------------------------------------------------
(* Bounds of the model.                                                    *)

\* how many push_gradient calls one accumulator receives before the model stops
MaxPushes == 3

\* how many backward passes the driver runs over one graph
MaxPasses == 2

\* how many nodes are constructed on top of the leaves
MaxBuilt == 1

\* how many step() calls are made on the schedulers of one optimizer
MaxSteps == 4
\* the ranks and extents of the operands an unsqueeze is constructed on
MaxRank == 2
MaxExtent == 2

-----------------------------------------------------------------------------
(* f32 values as exact fractions.                                          *)

Abs(x) == IF x < 0 THEN -x ELSE x

Sign(x) == IF x < 0 THEN -1 ELSE IF x > 0 THEN 1 ELSE 0

RECURSIVE GCD(_, _)
GCD(a, b) == IF b = 0 THEN a ELSE GCD(b, a % b)

\* the fraction n/d in lowest terms with a positive denominator
Norm(n, d) ==
    IF d = 0 THEN <<Sign(n), 0>>
    ELSE LET g == GCD(Abs(n), Abs(d))
             s == IF d < 0 THEN -1 ELSE 1
         IN  <<(s * n) \div g, (s * d) \div g>>

F(n) == <<n, 1>>

IsFinite(x) == x[2] # 0

\* `a + b` (the `+=` of an accumulation, the additions inside sum_axis)
FAdd(x, y) ==
    IF IsFinite(x) /\ IsFinite(y) THEN Norm(x[1] * y[2] + y[1] * x[2], x[2] * y[2])
    ELSE IF IsFinite(x) THEN y
    ELSE IF IsFinite(y) THEN x
    ELSE IF x = y THEN x ELSE <<0, 0>>

\* `a * b`
FMul(x, y) == Norm(x[1] * y[1], x[2] * y[2])

\* `-a`
FNeg(x) == <<-x[1], x[2]>>

\* `a / b`: the product of a with the reciprocal of b (1/0 = inf, 0/0 = NaN)
FDiv(x, y) ==
    LET inv == IF y[1] < 0 THEN <<-y[2], -y[1]>> ELSE <<y[2], y[1]>>
    IN  Norm(x[1] * inv[1], x[2] * inv[2])

\* `r.powi(2)`
FPowi2(r) == FMul(r, r)

RECURSIVE IsPow2(_)
IsPow2(d) == d = 1 \/ (d > 1 /\ d % 2 = 0 /\ IsPow2(d \div 2))

\* a value f32 holds exactly: non-finite, or a dyadic fraction with a 24-bit numerator
ExactF32(x) == ~IsFinite(x) \/ (IsPow2(x[2]) /\ Abs(x[1]) < 16777216 /\ x[2] <= 1024)

-----------------------------------------------------------------------------
(* Tensors (ndarray arrays) in row-major order.                            *)

RECURSIVE Prod(_)
Prod(s) == IF s = <<>> THEN 1 ELSE Head(s) * Prod(Tail(s))

\* the stride of (1-based) position k of shape s
Stride(s, k) == Prod(SubSeq(s, k + 1, Len(s)))

\* the multi-index (0-based coordinates) of the 0-based flat index i
Unravel(s, i) == [k \in 1..Len(s) |-> (i \div Stride(s, k)) % s[k]]

RECURSIVE RavelFrom(_, _, _)
RavelFrom(s, c, k) == IF k > Len(s) THEN 0 ELSE c[k] * Stride(s, k) + RavelFrom(s, c, k + 1)

\* the element of t at the multi-index c
At(t, c) == t.v[RavelFrom(t.shape, c, 1) + 1]

RECURSIVE Elements(_, _, _)
\* the elements k..n of an array, one after the other
Elements(e, k, n) == IF k > n THEN <<>> ELSE <<e[k]>> \o Elements(e, k + 1, n)

\* the array of the given shape whose element at c is f(c)
Build(shape, f(_)) ==
    [shape |-> shape,
     v |-> Elements([i \in 1..Prod(shape) |-> f(Unravel(shape, i - 1))], 1, Prod(shape))]

\* Tensor::zeros(shape)
Zeros(shape) == Build(shape, LAMBDA c : F(0))

\* an array filled with one value
Full(shape, x) == Build(shape, LAMBDA c : x)

\* an array whose elements are base, base + 1, ... in row-major order
Iota(shape, base) ==
    [shape |-> shape,
     v |-> Elements([i \in 1..Prod(shape) |-> F(base + i - 1)], 1, Prod(shape))]

\* raw_dim()
raw_dim(t) == t.shape

\* ndim()
ndim(s) == Len(s)

\* len_of(Axis(axis))
len_of(t, axis) == t.shape[axis + 1]

\* a sequence without / with one more position
RemoveAt(s, k) == [i \in 1..(Len(s) - 1) |-> IF i < k THEN s[i] ELSE s[i + 1]]
InsertAt(s, k, x) ==
    [i \in 1..(Len(s) + 1) |-> IF i < k THEN s[i] ELSE IF i = k THEN x ELSE s[i - 1]]


\* the operand element a broadcasting iteration over `out` pairs with index c
\* (and_broadcast: trailing axes aligned, extent-1 axes stretched)
BroadcastAt(t, out, c) ==
    LET off == Len(out) - Len(t.shape)
    IN  At(t, [k \in 1..Len(t.shape) |-> IF t.shape[k] = 1 THEN 0 ELSE c[k + off]])

\* two shapes broadcast together: aligned from the last axis, extents equal or 1
Compatible(s1, s2) ==
    \A k \in 1..(IF Len(s1) < Len(s2) THEN Len(s1) ELSE Len(s2)) :
        LET a == s1[Len(s1) - k + 1]
            b == s2[Len(s2) - k + 1]
        IN  a = b \/ a = 1 \/ b = 1

\* the broadcast shape of two compatible shapes
BroadcastShape(s1, s2) ==
    LET r == IF Len(s1) < Len(s2) THEN Len(s2) ELSE Len(s1)
        ext(s, k) == IF k + Len(s) - r >= 1 THEN s[k + Len(s) - r] ELSE 1
    IN  [k \in 1..r |-> IF ext(s1, k) = 1 THEN ext(s2, k) ELSE ext(s1, k)]

\* what stands for the panic of a constructor: no array has this form
ShapeError == [shape |-> <<>>, v |-> <<>>]

\* cobroadcasted_zeros(left, right): zeros of the operands' broadcast shape, a panic
\* when the shapes do not broadcast together
cobroadcasted_zeros(l, r) ==
    IF Compatible(l.shape, r.shape) THEN Zeros(BroadcastShape(l.shape, r.shape))
    ELSE ShapeError

RECURSIVE SumOver(_, _, _, _)
\* the sum of the elements of t at c with k, k+1, ... inserted at the axis
SumOver(t, c, axis, k) ==
    IF k >= t.shape[axis + 1] THEN F(0)
    ELSE FAdd(At(t, InsertAt(c, axis + 1, k)), SumOver(t, c, axis, k + 1))

\* sum_axis(Axis(axis))
sum_axis(t, axis) ==
    Build(RemoveAt(t.shape, axis + 1), LAMBDA c : SumOver(t, c, axis, 0))

\* insert_axis(Axis(axis))
insert_axis(t, axis) == [shape |-> InsertAt(t.shape, axis + 1, 1), v |-> t.v]

\* slice_axis(Axis(axis), lo..hi)
slice_axis(t, axis, lo, hi) ==
    Build([t.shape EXCEPT ![axis + 1] = hi - lo],
          LAMBDA c : At(t, [c EXCEPT ![axis + 1] = @ + lo]))

\* axis_iter(Axis(axis)).next().unwrap(): the subview at index 0 of the axis
first_along(t, axis) ==
    Build(RemoveAt(t.shape, axis + 1), LAMBDA c : At(t, InsertAt(c, axis + 1, 0)))

RECURSIVE SumLeading(_, _)
\* the leading axes the target lacks are summed away
SumLeading(src, rank) ==
    IF ndim(src.shape) > rank THEN SumLeading(sum_axis(src, 0), rank) ELSE src

RECURSIVE SumUnit(_, _, _)
\* every axis of extent 1 in the target is summed and kept as an axis of extent 1
SumUnit(dim, src, axis) ==
    IF axis >= Len(dim) THEN src
    ELSE SumUnit(dim,
                 IF dim[axis + 1] = 1 THEN insert_axis(sum_axis(src, axis), axis) ELSE src,
                 axis + 1)

\* reduce(dim, src): the broadcast-shaped src summed down to the shape dim
reduce(dim, src) == SumUnit(dim, SumLeading(src, Len(dim)), 0)

-----------------------------------------------------------------------------
(* The graph.  A node id names a forward node together with its backward   *)
(* node; nodes[n].operands are ids smaller than n (the graph is acyclic).  *)
(* kind "Input" is a leaf.  For a Division, variant says which backward    *)
(* node differentiates it: "Both" (DivisionBackward), "Left"               *)
(* (DivisionBackwardLeft) or "Right" (DivisionBackwardRight).              *)

Node == DOMAIN nodes

Inner == {n \in Node : nodes[n].kind # "Input"}

left(ns, n) == ns[n].operands[1]
right(ns, n) == ns[n].operands[2]
operand(ns, n) == ns[n].operands[1]

\* the operands a backward node holds a gradient reference to
GradOperands(ns, n) ==
    IF ns[n].kind = "Division"
    THEN IF ns[n].variant = "Both" THEN <<left(ns, n), right(ns, n)>>
         ELSE IF ns[n].variant = "Left" THEN <<left(ns, n)>>
         ELSE <<right(ns, n)>>
    ELSE ns[n].operands

\* the backward nodes that push into node x
Consumers(ns, x) ==
    {n \in DOMAIN ns : \E i \in DOMAIN GradOperands(ns, n) : GradOperands(ns, n)[i] = x}

\* choices: the arrays a leaf's data is given.  seeds: the arrays a node's gradient
\* may hold when a run starts (zeros from construction, or what a caller wrote into
\* it through gradient_mut()).  reset: the caller's set_overwrite() is exercised on it.
Input(shape, choices, reset) ==
    [kind |-> "Input", operands |-> <<>>, axis |-> 0, variant |-> "", shape |-> shape,
     choices |-> choices, seeds |-> {Zeros(shape)}, reset |-> reset]
DivisionNode(l, r, variant, seeds, reset) ==
    [kind |-> "Division", operands |-> <<l, r>>, axis |-> 0, variant |-> variant,
     shape |-> <<>>, choices |-> {}, seeds |-> seeds, reset |-> reset]
UnsqueezeNode(op, axis, seeds, reset) ==
    [kind |-> "Unsqueeze", operands |-> <<op>>, axis |-> axis, variant |-> "",
     shape |-> <<>>, choices |-> {}, seeds |-> seeds, reset |-> reset]
MultiConcatenateNode(ops, axis, shape, seeds, reset) ==
    [kind |-> "MultiConcatenate", operands |-> ops, axis |-> axis, variant |-> "",
     shape |-> shape, choices |-> {}, seeds |-> seeds, reset |-> reset]

-----------------------------------------------------------------------------
(* Construction.                                                           *)

\* faulty variant: the data buffer takes the left operand's shape
Division_new_of_left(left_data, right_data) == Zeros(left_data.shape)

\* Division::new: the data buffer
Division_new(left_data, right_data) == cobroadcasted_zeros(left_data, right_data)

\* faulty variant: the new axis is put after the operand's axes whatever the axis
Unsqueeze_new_at_end(operand_data, axis) ==
    Zeros(Append(raw_dim(operand_data), 1))

\* Unsqueeze::new: the data buffer
Unsqueeze_new(operand_data, axis) ==
    Zeros(InsertAt(raw_dim(operand_data), axis + 1, 1))

\* MultiConcatenate::new: the data buffer is the array the caller supplies
MultiConcatenate_new(shape) == Zeros(shape)

\* DivisionBackward::new, DivisionBackwardLeft::new, DivisionBackwardRight::new:
\* the gradient (and the shape and the scratch buffer) from the two arrays given
DivisionBackward_new(l, r) == cobroadcasted_zeros(l, r)

\* UnsqueezeBackward::new: the gradient buffer
UnsqueezeBackward_new(operand_gradient, axis) ==
    Zeros(InsertAt(raw_dim(operand_gradient), axis + 1, 1))

\* MultiConcatenateBackward::new: the gradient buffer
MultiConcatenateBackward_new(shape) == Zeros(shape)

RECURSIVE NewData(_, _)
\* the data buffer node n is constructed with
NewData(ns, n) ==
    IF ns[n].kind = "Input" THEN Zeros(ns[n].shape)
    ELSE IF ns[n].kind = "Division"
    THEN Division_new(NewData(ns, left(ns, n)), NewData(ns, right(ns, n)))
    ELSE IF ns[n].kind = "Unsqueeze"
    THEN Unsqueeze_new(NewData(ns, operand(ns, n)), ns[n].axis)
    ELSE MultiConcatenate_new(ns[n].shape)

RECURSIVE NewGradient(_, _)
\* the gradient buffer node n is constructed with
NewGradient(ns, n) ==
    IF ns[n].kind = "Input" THEN Zeros(ns[n].shape)
    ELSE IF ns[n].kind = "Division"
    THEN IF ns[n].variant = "Both"
         THEN DivisionBackward_new(NewGradient(ns, left(ns, n)),
                                   NewGradient(ns, right(ns, n)))
         ELSE IF ns[n].variant = "Left"
         THEN DivisionBackward_new(NewGradient(ns, left(ns, n)),
                                   NewData(ns, right(ns, n)))
         ELSE DivisionBackward_new(NewData(ns, left(ns, n)),
                                   NewGradient(ns, right(ns, n)))
    ELSE IF ns[n].kind = "Unsqueeze"
    THEN UnsqueezeBackward_new(NewGradient(ns, operand(ns, n)), ns[n].axis)
    ELSE MultiConcatenateBackward_new(ns[n].shape)

\* the `shape` field a backward node records at construction
shape(ns, n) == raw_dim(NewGradient(ns, n))

-----------------------------------------------------------------------------
(* Forward.                                                                *)

\* was_computed()
was_computed(cmp, n) == cmp[n]

\* faulty variant: the operands are taken the other way round
Division_compute_swapped(v, l, r) ==
    Build(v.shape,
          LAMBDA c : FDiv(BroadcastAt(r, v.shape, c), BroadcastAt(l, v.shape, c)))

\* Division::forward, the loop: *v = l / r over the broadcast views
Division_compute(v, l, r) ==
    Build(v.shape,
          LAMBDA c : FDiv(BroadcastAt(l, v.shape, c), BroadcastAt(r, v.shape, c)))

\* faulty variant: every operand is written to the slice that starts at 0
AssignSlice_unshifted(out, axis, offset, src) ==
    Build(out.shape,
          LAMBDA c : IF c[axis + 1] < len_of(src, axis) THEN At(src, c) ELSE At(out, c))

\* the mutable slice offset..offset + axis_len of `out` along the axis, assigned from src
AssignSlice(out, axis, offset, src) ==
    Build(out.shape,
          LAMBDA c : IF c[axis + 1] >= offset /\ c[axis + 1] < offset + len_of(src, axis)
                     THEN At(src, [c EXCEPT ![axis + 1] = @ - offset])
                     ELSE At(out, c))

RECURSIVE MultiConcatenate_compute(_, _, _, _, _)
\* MultiConcatenate::forward, the loop over the operands from the k-th on
MultiConcatenate_compute(out, ops, axis, offset, k) ==
    IF k > Len(ops) THEN out
    ELSE MultiConcatenate_compute(AssignSlice(out, axis, offset, ops[k]), ops, axis,
                                  offset + len_of(ops[k], axis), k + 1)

\* Unsqueeze::forward, the loop: the subview at index 0 of the axis takes the operand
Unsqueeze_compute(v, operand_data, axis) ==
    Build(v.shape,
          LAMBDA c : IF c[axis + 1] = 0 THEN At(operand_data, RemoveAt(c, axis + 1))
                     ELSE At(v, c))

\* what forward() writes into node n's data buffer
Compute(ns, d, n) ==
    IF ns[n].kind = "Division"
    THEN Division_compute(d[n], d[left(ns, n)], d[right(ns, n)])
    ELSE IF ns[n].kind = "Unsqueeze"
    THEN Unsqueeze_compute(d[n], d[operand(ns, n)], ns[n].axis)
    ELSE MultiConcatenate_compute(d[n], [k \in DOMAIN ns[n].operands |-> d[ns[n].operands[k]]],
                                  ns[n].axis, 0, 1)

\* faulty variant: forward() without the memo: the buffer is filled at every call
forward_always(ns, st, n) ==
    [st EXCEPT !.computed[n] = TRUE, !.data[n] = Compute(ns, st.data, n)]

\* faulty variant: forward() sets the flag and leaves the buffer as it was
forward_unfilled(ns, st, n) == [st EXCEPT !.computed[n] = TRUE]

\* faulty variant: forward() marks its operands computed as well
forward_driving(ns, st, n) ==
    IF was_computed(st.computed, n) THEN st
    ELSE [st EXCEPT
            !.computed = [m \in DOMAIN ns |->
                            @[m] \/ m = n \/ \E k \in DOMAIN ns[n].operands :
                                                  ns[n].operands[k] = m],
            !.data[n] = Compute(ns, st.data, n)]

\* forward(): nothing when the node was computed, else the flag is set and the
\* buffer filled from the operands' buffers
forward(ns, st, n) ==
    IF was_computed(st.computed, n) THEN st
    ELSE [st EXCEPT !.computed[n] = TRUE, !.data[n] = Compute(ns, st.data, n)]

\* reset_computation()
reset_computation(st, n) == [st EXCEPT !.computed[n] = FALSE]


-----------------------------------------------------------------------------
(* Backward.  A call works on the record st of the cells it can touch; a   *)
(* panic sets st.panicked and keeps what the call had already written.     *)

Panic(st) == [st EXCEPT !.panicked = TRUE]

\* faulty variant: can_overwrite never says yes
can_overwrite_never(ow, n) == FALSE

\* faulty variant: can_overwrite always says yes
can_overwrite_always(ow, n) == TRUE

\* can_overwrite()
can_overwrite(ow, n) == ow[n]

\* faulty variant: set_overwrite forgets to store the state
set_overwrite_dropped(ow, n, state) == ow

\* set_overwrite(state)
set_overwrite(ow, n, state) == [ow EXCEPT ![n] = state]

\* expect_tensor / expect_tensor_mut: the buffer is there (else the call panics)
expect_tensor(g, n) == g[n] # <<>>

\* and_broadcast(src): the source can be stretched to the destination's shape
BroadcastsTo(s, out) ==
    /\ Len(s) <= Len(out)
    /\ \A k \in 1..Len(s) : s[k] = out[k + Len(out) - Len(s)] \/ s[k] = 1

\* the destination after `*d = *s` over the broadcast source
Assigned(dest, src) == Build(dest.shape, LAMBDA c : BroadcastAt(src, dest.shape, c))

\* the destination after `*d += *s` over the broadcast source
Accumulated(dest, src) ==
    Build(dest.shape, LAMBDA c : FAdd(At(dest, c), BroadcastAt(src, dest.shape, c)))

\* elementwise sum of two equally shaped arrays
Plus(a, b) ==
    [shape |-> a.shape,
     v |-> Elements([i \in 1..Len(a.v) |-> FAdd(a.v[i], b.v[i])], 1, Len(a.v))]

\* history: the push of src into n by the backward node `from` is recorded (while
\* the window is open: who pushed how often, and the sum of what was pushed)
Record(p, from, n, src) ==
    [p EXCEPT ![n] = [open |-> @.open,
                      times |-> IF @.open THEN [@.times EXCEPT ![from] = @ + 1]
                                ELSE @.times,
                      sum |-> IF ~@.open THEN @.sum
                              ELSE IF @.sum = <<>> THEN <<src>>
                              ELSE <<Plus(@.sum[1], src)>>,
                      count |-> @.count + 1]]

\* push_gradient(node, src): overwrite the accumulator on its first write, add after
push_gradient(st, from, n, src) ==
    IF st.panicked THEN st
    ELSE IF ~expect_tensor(st.gradient, n) THEN Panic(st)
    ELSE IF ~BroadcastsTo(src.shape, st.gradient[n][1].shape) THEN Panic(st)
    ELSE IF can_overwrite(st.overwrite, n)
    THEN [st EXCEPT !.gradient[n] = <<Assigned(st.gradient[n][1], src)>>,
                    !.overwrite = set_overwrite(st.overwrite, n, FALSE),
                    !.pushed = Record(st.pushed, from, n, src)]
    ELSE [st EXCEPT !.gradient[n] = <<Accumulated(st.gradient[n][1], src)>>,
                    !.pushed = Record(st.pushed, from, n, src)]

\* the scratch buffer after `*d = g / r`
LeftContribution(buf, g, r) ==
    Build(buf.shape, LAMBDA c : FDiv(At(g, c), BroadcastAt(r, buf.shape, c)))

\* faulty variant: the right operand's derivative without the square of the divisor
RightContribution_unsquared(buf, g, l, r) ==
    Build(buf.shape,
          LAMBDA c : FDiv(FMul(FNeg(At(g, c)), BroadcastAt(l, buf.shape, c)),
                          BroadcastAt(r, buf.shape, c)))

\* the scratch buffer after `*d = -g * l / r.powi(2)`
RightContribution(buf, g, l, r) ==
    Build(buf.shape,
          LAMBDA c : FDiv(FMul(FNeg(At(g, c)), BroadcastAt(l, buf.shape, c)),
                          FPowi2(BroadcastAt(r, buf.shape, c))))

\* the shape the scratch buffer is reduced to: the operand's gradient().raw_dim()
TargetDim(st, t) == raw_dim(st.gradient[t][1])

\* faulty variant: the scratch buffer is pushed as it is, without the reduction
PushUnreduced(st, from, t) ==
    IF st.panicked THEN st
    ELSE IF ~expect_tensor(st.gradient, t) THEN Panic(st)
    ELSE push_gradient(st, from, t, st.buffer[from])

\* reduce(operand.gradient().raw_dim(), &buffer) and push_gradient(operand, &reduced)
PushReduced(st, from, t) ==
    IF st.panicked THEN st
    ELSE IF ~expect_tensor(st.gradient, t) THEN Panic(st)
    ELSE push_gradient(st, from, t, reduce(TargetDim(st, t), st.buffer[from]))

\* the left half of DivisionBackward::backward, all of DivisionBackwardLeft::backward
BackwardLeft(ns, st, n) ==
    LET g == st.gradient[n][1]
        filled == [st EXCEPT !.buffer[n] =
                       LeftContribution(@, g, st.data[right(ns, n)])]
    IN  PushReduced(filled, n, left(ns, n))

\* the right half of DivisionBackward::backward, all of DivisionBackwardRight::backward
BackwardRight(ns, st, n) ==
    LET g == st.gradient[n][1]
        filled == [st EXCEPT !.buffer[n] =
                       RightContribution(@, g, st.data[left(ns, n)], st.data[right(ns, n)])]
    IN  IF st.panicked THEN st ELSE PushReduced(filled, n, right(ns, n))

\* faulty variant: both operands' buffers are looked for before anything is pushed
DivisionBackward_backward_checked(ns, st, n) ==
    IF ~expect_tensor(st.gradient, n) THEN Panic(st)
    ELSE IF ~expect_tensor(st.gradient, left(ns, n)) \/ ~expect_tensor(st.gradient, right(ns, n))
    THEN Panic(st)
    ELSE BackwardRight(ns, BackwardLeft(ns, st, n), n)

\* DivisionBackward::backward
DivisionBackward_backward(ns, st, n) ==
    IF ~expect_tensor(st.gradient, n) THEN Panic(st)
    ELSE BackwardRight(ns, BackwardLeft(ns, st, n), n)

\* faulty variant: the left-only node pushes to the right operand as well
DivisionBackwardLeft_backward_both(ns, st, n) ==
    IF ~expect_tensor(st.gradient, n) THEN Panic(st)
    ELSE BackwardRight(ns, BackwardLeft(ns, st, n), n)

\* DivisionBackwardLeft::backward
DivisionBackwardLeft_backward(ns, st, n) ==
    IF ~expect_tensor(st.gradient, n) THEN Panic(st)
    ELSE BackwardLeft(ns, st, n)

\* DivisionBackwardRight::backward
DivisionBackwardRight_backward(ns, st, n) ==
    IF ~expect_tensor(st.gradient, n) THEN Panic(st)
    ELSE BackwardRight(ns, st, n)

\* faulty variant: the node's own gradient is zeroed once it has been passed on
UnsqueezeBackward_backward_consuming(ns, st, n) ==
    IF ~expect_tensor(st.gradient, n) THEN Panic(st)
    ELSE [push_gradient(st, n, operand(ns, n), first_along(st.gradient[n][1], ns[n].axis))
            EXCEPT !.gradient[n] = <<Zeros(st.gradient[n][1].shape)>>]

\* UnsqueezeBackward::backward
UnsqueezeBackward_backward(ns, st, n) ==
    IF ~expect_tensor(st.gradient, n) THEN Panic(st)
    ELSE push_gradient(st, n, operand(ns, n), first_along(st.gradient[n][1], ns[n].axis))

\* faulty variant: every operand receives the slice that starts at 0
GradView_from_start(g, axis, offset, axis_len) == slice_axis(g, axis, 0, axis_len)

\* the slice of the node's gradient the k-th operand receives
GradView(g, axis, offset, axis_len) == slice_axis(g, axis, offset, axis_len + offset)

RECURSIVE MultiConcatenateBackward_loop(_, _, _, _, _)
\* MultiConcatenateBackward::backward, the loop over the operands from the k-th on
MultiConcatenateBackward_loop(ns, st, n, k, offset) ==
    IF k > Len(ns[n].operands) \/ st.panicked THEN st
    ELSE LET op == ns[n].operands[k]
         IN  IF ~expect_tensor(st.gradient, op) \/ ~expect_tensor(st.gradient, n)
             THEN Panic(st)
             ELSE LET axis_len == len_of(st.gradient[op][1], ns[n].axis)
                      view == GradView(st.gradient[n][1], ns[n].axis, offset, axis_len)
                  IN  MultiConcatenateBackward_loop(ns, push_gradient(st, n, op, view),
                                                    n, k + 1, offset + axis_len)

\* MultiConcatenateBackward::backward
MultiConcatenateBackward_backward(ns, st, n) ==
    MultiConcatenateBackward_loop(ns, st, n, 1, 0)

\* backward() of node n
backward(ns, st, n) ==
    IF ns[n].kind = "Division"
    THEN IF ns[n].variant = "Both" THEN DivisionBackward_backward(ns, st, n)
         ELSE IF ns[n].variant = "Left" THEN DivisionBackwardLeft_backward(ns, st, n)
         ELSE DivisionBackwardRight_backward(ns, st, n)
    ELSE IF ns[n].kind = "Unsqueeze" THEN UnsqueezeBackward_backward(ns, st, n)
    ELSE MultiConcatenateBackward_backward(ns, st, n)

\* faulty variant: no_grad keeps the buffer
no_grad_kept(st, n) == st

\* no_grad()
no_grad(st, n) == [st EXCEPT !.gradient[n] = <<>>]

\* faulty variant: with_grad sets the overwrite flag as construction does
with_grad_resetting(ns, st, n) ==
    [st EXCEPT !.gradient[n] = <<Zeros(shape(ns, n))>>,
               !.overwrite = set_overwrite(@, n, TRUE)]

\* faulty variant: the buffer is allocated flat, with the right number of elements
with_grad_flat(ns, st, n) == [st EXCEPT !.gradient[n] = <<Zeros(<<Prod(shape(ns, n))>>)>>]

\* with_grad()
with_grad(ns, st, n) == [st EXCEPT !.gradient[n] = <<Zeros(shape(ns, n))>>]


-----------------------------------------------------------------------------
(* The graphs the specifications run on.                                   *)

\* x / c on one-element arrays, and the unsqueeze of the quotient
ChainGraph ==
    << Input(<<1>>, {Full(<<1>>, F(6)), Full(<<1>>, F(4))}, FALSE),
       Input(<<1>>, {Full(<<1>>, F(2))}, FALSE),
       DivisionNode(1, 2, "Both", {Full(<<1>>, F(1)), Full(<<1>>, F(5))}, TRUE),
       UnsqueezeNode(3, 0, {Full(<<1, 1>>, F(2)), Full(<<1, 1>>, F(3))}, FALSE) >>

\* x / x: the division node d has the leaf as both operands and is itself the
\* operand of three backward nodes (two unsqueezes and a left-only division)
FanGraph ==
    << Input(<<1>>, {Full(<<1>>, F(2))}, FALSE),
       DivisionNode(1, 1, "Both", {Full(<<1>>, F(5)), Full(<<1>>, F(0))}, TRUE),
       UnsqueezeNode(2, 0, {Full(<<1, 1>>, F(2))}, FALSE),
       DivisionNode(2, 1, "Left", {Full(<<1>>, F(8))}, FALSE),
       UnsqueezeNode(2, 1, {Full(<<1, 1>>, F(3))}, FALSE) >>

\* a 1x4 array and a 3x1 array, divided either way: the left operand, the one
\* differentiated, is stretched along one axis
BroadcastGraph ==
    << Input(<<1, 4>>,
             {Full(<<1, 4>>, F(1)), [shape |-> <<1, 4>>, v |-> <<F(1), F(2), F(4), F(2)>>]},
             TRUE),
       Input(<<3, 1>>, {Full(<<3, 1>>, F(1)), Full(<<3, 1>>, F(2))}, FALSE),
       DivisionNode(1, 2, "Left", {Full(<<3, 4>>, F(1)), Iota(<<3, 4>>, 1)}, FALSE),
       DivisionNode(2, 1, "Left", {Full(<<3, 4>>, F(1))}, FALSE) >>

\* an array of 4 and a 3x4 array, divided either way: the array of 4 lacks the
\* leading axis, and it is the operand of both backward nodes
RankGraph ==
    << Input(<<4>>, {Full(<<4>>, F(1)), [shape |-> <<4>>, v |-> <<F(1), F(2), F(4), F(2)>>]},
             TRUE),
       Input(<<3, 4>>, {Full(<<3, 4>>, F(1)), Full(<<3, 4>>, F(2))}, FALSE),
       DivisionNode(1, 2, "Both", {Full(<<3, 4>>, F(1)), Iota(<<3, 4>>, 1)}, FALSE),
       DivisionNode(2, 1, "Right", {Full(<<3, 4>>, F(1))}, FALSE) >>

\* 2x3 and 2x2 concatenated along axis 1
ConcatGraph ==
    << Input(<<2, 3>>, {Iota(<<2, 3>>, 1)}, TRUE),
       Input(<<2, 2>>, {Iota(<<2, 2>>, 7), Full(<<2, 2>>, F(0))}, FALSE),
       MultiConcatenateNode(<<1, 2>>, 1, <<2, 5>>,
                            {Iota(<<2, 5>>, 1), Full(<<2, 5>>, F(1))}, FALSE) >>

\* 1x2, 2x2 and the 1x2 again concatenated along axis 0
ConcatGraph0 ==
    << Input(<<1, 2>>, {Iota(<<1, 2>>, 1)}, TRUE),
       Input(<<2, 2>>, {Iota(<<2, 2>>, 3)}, FALSE),
       MultiConcatenateNode(<<1, 2, 1>>, 0, <<4, 2>>,
                            {Iota(<<4, 2>>, 1), Full(<<4, 2>>, F(2))}, FALSE) >>

Graphs == {ChainGraph, FanGraph, BroadcastGraph, RankGraph, ConcatGraph, ConcatGraph0}

\* a concatenation of no operands at all
EmptyConcatGraph ==
    << MultiConcatenateNode(<<>>, 0, <<0, 2>>, {Zeros(<<0, 2>>)}, FALSE) >>

\* x / c and the unsqueeze of the quotient, as ChainGraph, with one seed each
GradChain ==
    << Input(<<1>>, {Full(<<1>>, F(6))}, FALSE),
       Input(<<1>>, {Full(<<1>>, F(2))}, FALSE),
       DivisionNode(1, 2, "Both", {Full(<<1>>, F(1))}, FALSE),
       UnsqueezeNode(3, 0, {Full(<<1, 1>>, F(2))}, FALSE) >>

\* an array of 2 and a 2x2 array divided either way, one operand differentiated
SideGraph ==
    << Input(<<2>>, {Iota(<<2>>, 1)}, FALSE),
       Input(<<2, 2>>, {Full(<<2, 2>>, F(2))}, FALSE),
       DivisionNode(2, 1, "Right", {Full(<<2, 2>>, F(4))}, FALSE),
       DivisionNode(1, 2, "Left", {Full(<<2, 2>>, F(2))}, FALSE) >>

\* a 1x2 array concatenated with itself along axis 0
TwiceGraph ==
    << Input(<<1, 2>>, {Iota(<<1, 2>>, 1)}, FALSE),
       MultiConcatenateNode(<<1, 1>>, 0, <<2, 2>>, {Iota(<<2, 2>>, 1)}, FALSE) >>

\* the graphs on which the gradient buffers are disabled and enabled
\* a / q with q = a / b a backward node: both operands of the division are
\* differentiated and the right one can lose its buffer
PartialDivision ==
    << Input(<<1>>, {Full(<<1>>, F(6))}, FALSE),
       Input(<<1>>, {Full(<<1>>, F(2))}, FALSE),
       DivisionNode(1, 2, "Left", {Full(<<1>>, F(1))}, FALSE),
       DivisionNode(1, 3, "Both", {Full(<<1>>, F(2))}, FALSE) >>

\* a, q and b concatenated, q = a / b a backward node between two leaves
PartialConcatenate ==
    << Input(<<1>>, {Full(<<1>>, F(6))}, FALSE),
       Input(<<1>>, {Full(<<1>>, F(2))}, FALSE),
       DivisionNode(1, 2, "Left", {Full(<<1>>, F(1))}, FALSE),
       MultiConcatenateNode(<<1, 3, 2>>, 0, <<3>>, {Iota(<<3>>, 1)}, FALSE) >>

GradGraphs ==
    {GradChain, SideGraph, TwiceGraph, EmptyConcatGraph, PartialDivision, PartialConcatenate}

-----------------------------------------------------------------------------
(* State and actions.                                                      *)

NoBuffer == [shape |-> <<0>>, v |-> <<>>]

\* the rate an optimizer is constructed with
InitialLr == F(1)

\* the schedulers bound to the optimizer: A multiplies the rate by 2 at every step,
\* B by 1/10, and C by 1/2 at every second epoch (a step decay)
Schedulers == <<"A", "B", "C">>

\* an optimizer and its schedulers as constructed: every scheduler has read the
\* optimizer's rate; nothing has been stepped or printed
NewOptim ==
    [lr |-> InitialLr,
     last_lr |-> [s \in DOMAIN Schedulers |-> F(0)],
     current_lr |-> [s \in DOMAIN Schedulers |-> InitialLr],
     current_epoch |-> [s \in DOMAIN Schedulers |-> 0],
     steps |-> <<>>,
     rates |-> <<>>,
     call |-> <<>>,
     out |-> <<>>]

\* no call has been made on a forward node yet
NoCall == [op |-> "none", node |-> 0, hit |-> FALSE]

St ==
    [data |-> data, computed |-> computed, gradient |-> gradient,
     overwrite |-> overwrite, buffer |-> buffer, panicked |-> panicked,
     pushed |-> pushed, stale |-> stale, last |-> last, pass |-> pass]

\* the cells take the values of the record r
Becomes(r) ==
    /\ data' = r.data
    /\ computed' = r.computed
    /\ gradient' = r.gradient
    /\ overwrite' = r.overwrite
    /\ buffer' = r.buffer
    /\ panicked' = r.panicked
    /\ pushed' = r.pushed
    /\ stale' = r.stale
    /\ last' = r.last
    /\ pass' = r.pass
    /\ UNCHANGED <<nodes, optim>>

\* history: a window opens when the flag is (set) true; nothing pushed yet
Fresh(ns, count) ==
    [open |-> TRUE, times |-> [m \in DOMAIN ns |-> 0], sum |-> <<>>, count |-> count]

\* one array per node, each drawn from the set pick(n)
Assignments(ns, pick(_)) ==
    LET all == UNION {pick(n) : n \in DOMAIN ns}
    IN  {f \in [DOMAIN ns -> all] : \A n \in DOMAIN ns : f[n] \in pick(n)}

\* the leaves' data: one of the choices each
LeafData(ns) ==
    Assignments(ns, LAMBDA n : IF ns[n].kind = "Input" THEN ns[n].choices ELSE {NoBuffer})

\* the gradients a run starts with: one of the seeds each
SeedGradients(ns) == Assignments(ns, LAMBDA n : ns[n].seeds)

\* the record of the cells after the graph ns was constructed on the leaf data ld
Constructed(ns, ld) ==
    [data |-> [n \in DOMAIN ns |-> IF ns[n].kind = "Input" THEN ld[n] ELSE NewData(ns, n)],
     computed |-> [n \in DOMAIN ns |-> FALSE],
     gradient |-> [n \in DOMAIN ns |-> <<NewGradient(ns, n)>>],
     overwrite |-> [n \in DOMAIN ns |-> TRUE],
     buffer |-> [n \in DOMAIN ns |->
                    IF ns[n].kind = "Division" THEN Zeros(shape(ns, n)) ELSE NoBuffer],
     panicked |-> FALSE,
     pushed |-> [n \in DOMAIN ns |-> Fresh(ns, 0)],
     stale |-> [n \in DOMAIN ns |-> FALSE],
     last |-> NoCall,
     pass |-> [no |-> 0, todo |-> <<>>]]

\* the graph becomes ns and the cells take the values of the record r
BecomesGraph(ns, r) ==
    /\ nodes' = ns
    /\ data' = r.data
    /\ computed' = r.computed
    /\ gradient' = r.gradient
    /\ overwrite' = r.overwrite
    /\ buffer' = r.buffer
    /\ panicked' = r.panicked
    /\ pushed' = r.pushed
    /\ stale' = r.stale
    /\ last' = r.last
    /\ pass' = r.pass
    /\ UNCHANGED optim

\* the variables hold the record r of the graph ns
Holds(ns, r) ==
    /\ nodes = ns
    /\ data = r.data
    /\ computed = r.computed
    /\ gradient = r.gradient
    /\ overwrite = r.overwrite
    /\ buffer = r.buffer
    /\ panicked = r.panicked
    /\ pushed = r.pushed
    /\ stale = r.stale
    /\ last = r.last
    /\ pass = r.pass
    /\ optim = NewOptim

RECURSIVE ForwardFrom(_, _, _)
\* forward() on node n and on every node after it
ForwardFrom(ns, st, n) ==
    IF n > Len(ns) THEN st
    ELSE ForwardFrom(ns, IF ns[n].kind = "Input" THEN st ELSE forward(ns, st, n), n + 1)

\* a forward pass: forward() on every node, operands before the nodes that use them
ForwardPass(ns, st) == ForwardFrom(ns, st, 1)

\* a graph constructed and evaluated by a forward pass, the gradient buffers
\* holding zeros or what a caller has written into them
Init ==
    \E ns \in Graphs : \E ld \in LeafData(ns) : \E sg \in SeedGradients(ns) :
        Holds(ns, [ForwardPass(ns, Constructed(ns, ld)) EXCEPT
                       !.gradient = [n \in DOMAIN ns |-> <<sg[n]>>]])

\* the accumulators node n pushes into have room for one more push
Room(n) ==
    \A i \in DOMAIN GradOperands(nodes, n) :
        pushed[GradOperands(nodes, n)[i]].count < MaxPushes

\* a call of backward() on node n
Backward(n) ==
    /\ ~panicked
    /\ Room(n)
    /\ Becomes(backward(nodes, St, n))

\* a call of set_overwrite(state) on node n
SetOverwrite(n, state) ==
    /\ ~panicked
    /\ Becomes([St EXCEPT !.overwrite = set_overwrite(overwrite, n, state),
                          !.pushed[n] = IF state THEN Fresh(nodes, @.count)
                                        ELSE [@ EXCEPT !.open = @ /\ pushed[n].sum # <<>>]])

Next ==
    \/ \E n \in Inner : Backward(n)
    \/ \E n \in Node : \E state \in BOOLEAN : nodes[n].reset /\ SetOverwrite(n, state)

Spec == Init /\ [][Next]_vars

\* ---- the three backward nodes of a division side by side ----

\* x / y three times on equal leaves of their own (x of shape 2, y of shape 2x1), with
\* the same upstream gradient g: differentiated in both operands, in the left one
\* and in the right one
Twin(x, y, g) ==
    << Input(<<2>>, {x}, FALSE), Input(<<2, 1>>, {y}, FALSE),
       Input(<<2>>, {x}, FALSE), Input(<<2, 1>>, {y}, TRUE),
       Input(<<2>>, {x}, FALSE), Input(<<2, 1>>, {y}, FALSE),
       DivisionNode(1, 2, "Both", {g}, FALSE),
       DivisionNode(3, 4, "Left", {g}, FALSE),
       DivisionNode(5, 6, "Right", {g}, FALSE) >>

TwinGraphs ==
    { Twin([shape |-> <<2>>, v |-> <<F(6), F(4)>>],
           [shape |-> <<2, 1>>, v |-> <<F(2), F(4)>>], Iota(<<2, 2>>, 1)),
      Twin(Iota(<<2>>, 1), Full(<<2, 1>>, F(2)), Full(<<2, 2>>, F(1))) }

InitTwin ==
    \E ns \in TwinGraphs : \E ld \in LeafData(ns) : \E sg \in SeedGradients(ns) :
        Holds(ns, [ForwardPass(ns, Constructed(ns, ld)) EXCEPT
                       !.gradient = [n \in DOMAIN ns |-> <<sg[n]>>]])

SpecTwin == InitTwin /\ [][Next]_vars

\* ---- an unsqueeze on a leaf of every shape, at every axis ----

\* the shapes of the operands: ranks 1..MaxRank, extents 1..MaxExtent
UnsqueezeShapes == UNION {[1..r -> 1..MaxExtent] : r \in 1..MaxRank}

\* a leaf of shape s (data 1, 2, ... or all 2) and its unsqueeze at the axis, the
\* gradient of the unsqueeze 1, 2, ... or all 1
UnsqueezeGraph(s, axis) ==
    LET out == InsertAt(s, axis + 1, 1)
    IN  << Input(s, {Iota(s, 1), Full(s, F(2))}, FALSE),
           UnsqueezeNode(1, axis, {Iota(out, 1), Full(out, F(1))}, FALSE) >>

\* the graph as constructed, not evaluated yet, the gradient of the unsqueeze seeded
InitUnsqueeze ==
    \E s \in UnsqueezeShapes : \E axis \in 0..Len(s) :
        LET ns == UnsqueezeGraph(s, axis)
        IN  \E ld \in LeafData(ns) : \E sg \in SeedGradients(ns) :
                Holds(ns, [Constructed(ns, ld) EXCEPT
                               !.gradient = [n \in DOMAIN ns |-> <<sg[n]>>]])

\* ---- the forward side: forward(), reset_computation() and writes to the leaves ----

\* a graph as constructed: no node computed, every buffer zeros but the leaves' data
InitForward ==
    \E ns \in Graphs : \E ld \in LeafData(ns) : Holds(ns, Constructed(ns, ld))

\* the forward nodes that read the data of node x
Dependents(ns, x) ==
    {n \in DOMAIN ns : \E k \in DOMAIN ns[n].operands : ns[n].operands[k] = x}

\* history: when the data of x has changed, the nodes that read it are out of date
Outdated(s, ns, x, changed) ==
    [n \in DOMAIN ns |-> s[n] \/ (changed /\ n \in Dependents(ns, x))]

\* a call of forward() on node n
Forward(n) ==
    LET r == forward(nodes, St, n)
    IN  Becomes([r EXCEPT
                   !.stale = [Outdated(@, nodes, n, r.data[n] # data[n])
                                  EXCEPT ![n] = @ /\ computed[n]],
                   !.last = [op |-> "forward", node |-> n, hit |-> computed[n]]])

\* a call of reset_computation() on node n
ResetComputation(n) ==
    Becomes([reset_computation(St, n) EXCEPT
               !.last = [op |-> "reset_computation", node |-> n, hit |-> computed[n]]])

\* the caller writes the array t into the data of leaf n
WriteData(n, t) ==
    /\ t # data[n]
    /\ Becomes([St EXCEPT !.data[n] = t,
                          !.stale = Outdated(@, nodes, n, TRUE),
                          !.last = [op |-> "data_mut", node |-> n, hit |-> FALSE]])

NextForward ==
    \/ \E n \in Inner : Forward(n)
    \/ \E n \in Inner : ResetComputation(n)
    \/ \E n \in Node : \E t \in nodes[n].choices : WriteData(n, t)

SpecForward == InitForward /\ [][NextForward]_vars

\* forward() and backward() on the unsqueeze, the leaf's data rewritten in between
NextUnsqueeze ==
    \/ \E n \in Inner : Forward(n)
    \/ \E n \in Inner : Backward(n)
    \/ \E n \in Node : \E t \in nodes[n].choices : WriteData(n, t)

SpecUnsqueeze == InitUnsqueeze /\ [][NextUnsqueeze]_vars

\* ---- forward/backward cycles run by a driver over the whole graph ----

RECURSIVE Descending(_, _)
\* the backward nodes among 1..n, the last constructed first
Descending(ns, n) ==
    IF n = 0 THEN <<>>
    ELSE IF ns[n].kind = "Input" THEN Descending(ns, n - 1)
    ELSE <<n>> \o Descending(ns, n - 1)

\* a reverse topological order of the graph: operands are constructed before the
\* nodes that use them
BackwardOrder(ns) == Descending(ns, Len(ns))

\* the backward nodes nothing pushes into: their gradients are the seeds of a pass
Roots(ns) == {n \in DOMAIN ns : ns[n].kind # "Input" /\ Consumers(ns, n) = {}}

RECURSIVE PrepareFlags(_, _)
\* set_overwrite(true) on the nodes 1..n
PrepareFlags(ow, n) ==
    IF n = 0 THEN ow ELSE PrepareFlags(set_overwrite(ow, n, TRUE), n - 1)

\* reset_computation() on every forward node
ResetAll(ns, st) ==
    [st EXCEPT !.computed = [n \in DOMAIN ns |-> IF ns[n].kind = "Input" THEN @[n] ELSE FALSE]]

\* a cycle begins: the leaves get the data ld, the graph is evaluated anew, every
\* flag is set true and the roots' gradients are seeded with sg
BeginPass(ld, sg) ==
    /\ ~panicked
    /\ pass.todo = <<>>
    /\ pass.no < MaxPasses
    /\ LET fed == [St EXCEPT !.data = [n \in Node |-> IF nodes[n].kind = "Input"
                                                       THEN ld[n] ELSE @[n]]]
       IN  Becomes([ForwardPass(nodes, ResetAll(nodes, fed)) EXCEPT
                      !.overwrite = PrepareFlags(@, Len(nodes)),
                      !.gradient = [n \in Node |-> IF n \in Roots(nodes) THEN <<sg[n]>>
                                                   ELSE @[n]],
                      !.pushed = [n \in Node |-> Fresh(nodes, 0)],
                      !.pass = [no |-> @.no + 1, todo |-> BackwardOrder(nodes)]])

\* the pass goes on: backward() on the next node of the order
StepPass ==
    /\ ~panicked
    /\ pass.todo # <<>>
    /\ Becomes([backward(nodes, St, Head(pass.todo)) EXCEPT !.pass.todo = Tail(@)])

NextPass ==
    \/ \E ld \in LeafData(nodes) : \E sg \in SeedGradients(nodes) : BeginPass(ld, sg)
    \/ StepPass

SpecPass == Init /\ [][NextPass]_vars

\* ---- gradient buffers disabled and enabled: no_grad(), with_grad(), the accessors ----

InitGrad ==
    \E ns \in GradGraphs : \E ld \in LeafData(ns) : \E sg \in SeedGradients(ns) :
        Holds(ns, [ForwardPass(ns, Constructed(ns, ld)) EXCEPT
                       !.gradient = [n \in DOMAIN ns |-> <<sg[n]>>]])

\* the call `op` on backward node n is recorded, with whether n had its buffer
Called(st, op, n) ==
    [st EXCEPT !.last = [op |-> op, node |-> n, hit |-> expect_tensor(gradient, n)]]

\* gradient() / gradient_mut(): the buffer, or a panic when it is absent
gradient_accessor(st, n) == IF expect_tensor(st.gradient, n) THEN st ELSE Panic(st)

\* a call of no_grad() on node n
NoGrad(n) ==
    /\ ~panicked
    /\ Becomes(Called(no_grad(St, n), "no_grad", n))

\* a call of with_grad() on node n
WithGrad(n) ==
    /\ ~panicked
    /\ Becomes(Called(with_grad(nodes, St, n), "with_grad", n))

\* a call of gradient() or gradient_mut() on node n
ReadGradient(n) ==
    /\ ~panicked
    /\ Becomes(Called(gradient_accessor(St, n), "gradient", n))

\* a call of backward() on node n, recorded
BackwardCall(n) ==
    /\ ~panicked
    /\ Room(n)
    /\ Becomes(Called(backward(nodes, St, n), "backward", n))

NextGrad ==
    \/ \E n \in Inner : NoGrad(n)
    \/ \E n \in Inner : WithGrad(n)
    \/ \E n \in Inner : ReadGradient(n)
    \/ \E n \in Inner : BackwardCall(n)

SpecGrad == InitGrad /\ [][NextGrad]_vars

\* ---- the borrows of the RefCells a call takes and gives back ----

\* the RefCell of a field of a node
Cell(field, n) == <<field, n>>

\* borrow() and borrow_mut() on a cell, and the drop of the Ref / RefMut
Borrow(c) == <<"borrow", c>>

BorrowMut(c) == <<"borrow_mut", c>>

Drop(c) == <<"drop", c>>

DropMut(c) == <<"drop_mut", c>>

\* the borrows held once the event e has happened
HeldAfter(held, e) ==
    IF e[1] = "borrow" THEN Append(held, <<"shared", e[2]>>)
    ELSE IF e[1] = "borrow_mut" THEN Append(held, <<"mut", e[2]>>)
    ELSE LET kind == IF e[1] = "drop" THEN "shared" ELSE "mut"
             at == CHOOSE i \in DOMAIN held :
                      /\ held[i] = <<kind, e[2]>>
                      /\ \A j \in DOMAIN held : held[j] = <<kind, e[2]>> => i <= j
         IN  [i \in 1..(Len(held) - 1) |-> IF i < at THEN held[i] ELSE held[i + 1]]

\* RefCell refuses the event e: a borrow of a cell that is mutably borrowed, or a
\* mutable borrow of a cell that is borrowed
Refused(held, e) ==
    \/ e[1] = "borrow" /\ \E i \in DOMAIN held : held[i] = <<"mut", e[2]>>
    \/ e[1] = "borrow_mut" /\ \E i \in DOMAIN held : held[i][2] = e[2]

RECURSIVE BorrowConflictFrom(_, _, _)
BorrowConflictFrom(events, k, held) ==
    IF k > Len(events) THEN FALSE
    ELSE IF Refused(held, events[k]) THEN TRUE
    ELSE BorrowConflictFrom(events, k + 1, HeldAfter(held, events[k]))

\* a call that makes these events, the caller holding no borrow, is refused a borrow
BorrowConflict(events) == BorrowConflictFrom(events, 1, <<>>)

\* push_gradient(node, src): the destination is borrowed mutably for the call
push_gradient_borrows(op) == << BorrowMut(Cell("gradient", op)), DropMut(Cell("gradient", op)) >>

\* `x.gradient().raw_dim()`, `x.gradient().len_of(..)`: a Ref dropped with the statement
Peek(c) == << Borrow(c), Drop(c) >>

\* Division::forward: one Zip statement
Division_forward_borrows(ns, n) ==
    << BorrowMut(Cell("data", n)),
       Borrow(Cell("data", left(ns, n))), Borrow(Cell("data", right(ns, n))),
       Drop(Cell("data", right(ns, n))), Drop(Cell("data", left(ns, n))),
       DropMut(Cell("data", n)) >>

RECURSIVE MultiConcatenate_forward_loop_borrows(_, _, _)
MultiConcatenate_forward_loop_borrows(ns, n, k) ==
    IF k > Len(ns[n].operands) THEN <<>>
    ELSE Peek(Cell("data", ns[n].operands[k]))
            \o MultiConcatenate_forward_loop_borrows(ns, n, k + 1)

\* MultiConcatenate::forward: `data` is held over the loop, `operand_data` over one round
MultiConcatenate_forward_borrows(ns, n) ==
    << BorrowMut(Cell("data", n)) >>
        \o MultiConcatenate_forward_loop_borrows(ns, n, 1)
        \o << DropMut(Cell("data", n)) >>

\* Unsqueeze::forward
Unsqueeze_forward_borrows(ns, n) ==
    << BorrowMut(Cell("data", n)),
       Borrow(Cell("data", operand(ns, n))), Drop(Cell("data", operand(ns, n))),
       DropMut(Cell("data", n)) >>

\* forward() of node n
forward_borrows(ns, cmp, n) ==
    IF was_computed(cmp, n) THEN <<>>
    ELSE IF ns[n].kind = "Division" THEN Division_forward_borrows(ns, n)
    ELSE IF ns[n].kind = "Unsqueeze" THEN Unsqueeze_forward_borrows(ns, n)
    ELSE MultiConcatenate_forward_borrows(ns, n)

\* the first half of DivisionBackward::backward, all of DivisionBackwardLeft::backward
BackwardLeft_borrows(ns, n) ==
    Peek(Cell("data", right(ns, n)))
        \o Peek(Cell("gradient", left(ns, n)))
        \o push_gradient_borrows(left(ns, n))

\* the second half of DivisionBackward::backward, all of DivisionBackwardRight::backward
BackwardRight_borrows(ns, n) ==
    << Borrow(Cell("data", left(ns, n))), Borrow(Cell("data", right(ns, n))),
       Drop(Cell("data", right(ns, n))), Drop(Cell("data", left(ns, n))) >>
        \o Peek(Cell("gradient", right(ns, n)))
        \o push_gradient_borrows(right(ns, n))

\* DivisionBackward::backward and its Left and Right variants: `gradient` and `buffer`
\* are held to the end of the call
DivisionBackward_backward_borrows(ns, n) ==
    << Borrow(Cell("gradient", n)), BorrowMut(Cell("buffer", n)) >>
        \o (IF ns[n].variant \in {"Both", "Left"} THEN BackwardLeft_borrows(ns, n) ELSE <<>>)
        \o (IF ns[n].variant \in {"Both", "Right"} THEN BackwardRight_borrows(ns, n) ELSE <<>>)
        \o << DropMut(Cell("buffer", n)), Drop(Cell("gradient", n)) >>

\* UnsqueezeBackward::backward: the Ref of the own gradient lives in the argument
UnsqueezeBackward_backward_borrows(ns, n) ==
    << Borrow(Cell("gradient", n)) >>
        \o push_gradient_borrows(operand(ns, n))
        \o << Drop(Cell("gradient", n)) >>

\* faulty variant: the Ref of the operand's gradient is kept while it is pushed into
MultiConcatenateBackward_round_borrows_kept(op) ==
    << Borrow(Cell("gradient", op)) >> \o push_gradient_borrows(op)
        \o << Drop(Cell("gradient", op)) >>

\* one round of the loop of MultiConcatenateBackward::backward
MultiConcatenateBackward_round_borrows(op) ==
    Peek(Cell("gradient", op)) \o push_gradient_borrows(op)

RECURSIVE MultiConcatenateBackward_loop_borrows(_, _, _)
MultiConcatenateBackward_loop_borrows(ns, n, k) ==
    IF k > Len(ns[n].operands) THEN <<>>
    ELSE MultiConcatenateBackward_round_borrows(ns[n].operands[k])
            \o MultiConcatenateBackward_loop_borrows(ns, n, k + 1)

\* MultiConcatenateBackward::backward: `grad` is held over the loop
MultiConcatenateBackward_backward_borrows(ns, n) ==
    << Borrow(Cell("gradient", n)) >>
        \o MultiConcatenateBackward_loop_borrows(ns, n, 1)
        \o << Drop(Cell("gradient", n)) >>

\* backward() of node n
backward_borrows(ns, n) ==
    IF ns[n].kind = "Division" THEN DivisionBackward_backward_borrows(ns, n)
    ELSE IF ns[n].kind = "Unsqueeze" THEN UnsqueezeBackward_backward_borrows(ns, n)
    ELSE MultiConcatenateBackward_backward_borrows(ns, n)

\* x / x, and the quotient divided by itself
SelfGraph ==
    << Input(<<1>>, {Full(<<1>>, F(2))}, FALSE),
       DivisionNode(1, 1, "Both", {Full(<<1>>, F(1))}, FALSE),
       DivisionNode(2, 2, "Both", {Full(<<1>>, F(1))}, FALSE) >>

\* x / x differentiated on one side only, either side
SelfSideGraph ==
    << Input(<<1>>, {Full(<<1>>, F(2))}, FALSE),
       DivisionNode(1, 1, "Left", {Full(<<1>>, F(2))}, FALSE),
       DivisionNode(1, 1, "Right", {Full(<<1>>, F(3))}, FALSE) >>

BorrowGraphs == {SelfGraph, SelfSideGraph, TwiceGraph, GradChain}

\* a graph as constructed, the gradients seeded
InitBorrow ==
    \E ns \in BorrowGraphs : \E ld \in LeafData(ns) : \E sg \in SeedGradients(ns) :
        Holds(ns, [Constructed(ns, ld) EXCEPT !.gradient = [n \in DOMAIN ns |-> <<sg[n]>>]])

\* the cells after a call that makes the given borrows: a refused borrow is a panic
Borrowing(events, st, op, n) ==
    [(IF BorrowConflict(events) THEN Panic(St) ELSE st)
        EXCEPT !.last = [op |-> op, node |-> n, hit |-> events # <<>>]]

\* a call of forward() on node n by a caller that holds no borrow
BorrowingForward(n) ==
    /\ ~panicked
    /\ Becomes(Borrowing(forward_borrows(nodes, computed, n), forward(nodes, St, n),
                         "forward", n))

\* a call of backward() on node n by a caller that holds no borrow
BorrowingBackward(n) ==
    /\ ~panicked
    /\ Room(n)
    /\ Becomes(Borrowing(backward_borrows(nodes, n), backward(nodes, St, n), "backward", n))

NextBorrow ==
    \/ \E n \in Inner : BorrowingForward(n)
    \/ \E n \in Inner : BorrowingBackward(n)

SpecBorrow == InitBorrow /\ [][NextBorrow]_vars

\* ---- learning rate schedulers bound to one optimizer ----

\* the multiplier of scheduler s at an epoch
Factor(s, epoch) ==
    IF Schedulers[s] = "A" THEN F(2)
    ELSE IF Schedulers[s] = "B" THEN FDiv(F(1), F(10))
    ELSE IF epoch % 2 = 0 THEN FDiv(F(1), F(2)) ELSE F(1)

\* faulty variant: the current rate is not saved as the last rate
prepare_step_unsaved(o, s) == [o EXCEPT !.current_epoch[s] = @ + 1]

\* prepare_step(last_lr, current_lr, current_epoch) on the cells of scheduler s
prepare_step(o, s) ==
    [o EXCEPT !.last_lr[s] = o.current_lr[s], !.current_epoch[s] = @ + 1]

\* faulty variant: the new rate is computed from the scheduler's own last rate
step_from_own(o, s) ==
    LET p == prepare_step(o, s)
        new == FMul(p.last_lr[s], Factor(s, p.current_epoch[s]))
    IN  [p EXCEPT !.current_lr[s] = new, !.lr = new,
                  !.steps = Append(@, Schedulers[s]), !.rates = Append(@, new)]

\* step(): prepare, compute the new rate from the rate the optimizer holds, write it
\* into the optimizer
step(o, s) ==
    LET p == prepare_step(o, s)
        new == FMul(p.lr, Factor(s, p.current_epoch[s]))
    IN  [p EXCEPT !.current_lr[s] = new, !.lr = new,
                  !.steps = Append(@, Schedulers[s]), !.rates = Append(@, new)]

get_last_lr(o, s) == o.last_lr[s]

get_current_lr(o, s) == o.current_lr[s]

get_current_epoch(o, s) == o.current_epoch[s]

set_current_epoch(o, s, epoch) == [o EXCEPT !.current_epoch[s] = epoch]

\* faulty variant: printing prepares a step
print_lr_advancing(o, s) ==
    [prepare_step(o, s) EXCEPT !.out = <<[epoch |-> get_current_epoch(o, s), lr |-> get_current_lr(o, s)]>>]

\* print_lr(): the line printed, as the epoch and the rate it shows
print_lr(o, s) == [o EXCEPT !.out = <<[epoch |-> get_current_epoch(o, s), lr |-> get_current_lr(o, s)]>>]

\* an optimizer with its schedulers, no graph
InitSched == Holds(<<>>, Constructed(<<>>, <<>>))

\* the optimizer and the schedulers become o after the call `op` on scheduler s;
\* `out` is what that call has printed
Scheduled(o, op, s) ==
    /\ optim' = [o EXCEPT !.call = <<op, s>>,
                          !.out = IF op = "print_lr" THEN o.out ELSE <<>>]
    /\ UNCHANGED <<nodes, data, computed, gradient, overwrite, buffer, panicked, pushed,
                   stale, last, pass>>

Step(s) ==
    /\ Len(optim.steps) < MaxSteps
    /\ Scheduled(step(optim, s), "step", s)

GetLastLr(s) ==
    /\ s \in DOMAIN Schedulers
    /\ Scheduled(optim, "get_last_lr", s)

GetCurrentLr(s) ==
    /\ s \in DOMAIN Schedulers
    /\ Scheduled(optim, "get_current_lr", s)

GetCurrentEpoch(s) ==
    /\ s \in DOMAIN Schedulers
    /\ Scheduled(optim, "get_current_epoch", s)

SetCurrentEpoch(s, epoch) ==
    /\ s \in DOMAIN Schedulers
    /\ Scheduled(set_current_epoch(optim, s, epoch), "set_current_epoch", s)

PrintLr(s) ==
    /\ s \in DOMAIN Schedulers
    /\ Scheduled(print_lr(optim, s), "print_lr", s)

NextSched ==
    \/ \E s \in DOMAIN Schedulers : Step(s)
    \/ \E s \in DOMAIN Schedulers : GetLastLr(s)
    \/ \E s \in DOMAIN Schedulers : GetCurrentLr(s)
    \/ \E s \in DOMAIN Schedulers : GetCurrentEpoch(s)
    \/ \E s \in DOMAIN Schedulers : SetCurrentEpoch(s, 0)
    \/ \E s \in DOMAIN Schedulers : PrintLr(s)

SpecSched == InitSched /\ [][NextSched]_vars

\* ---- construction: nodes are built on the nodes there are ----

\* the shapes of the leaves a graph is built on
LeafShapes == {<<2, 3>>, <<2, 2>>, <<3>>, <<2, 1>>}

\* the output arrays a caller hands to MultiConcatenate::new
ConcatShapes == {<<2, 5>>, <<2, 6>>, <<4, 3>>}

\* two leaves, nothing built on them yet
InitBuild ==
    \E s1 \in LeafShapes : \E s2 \in LeafShapes :
        LET ns == << Input(s1, {Zeros(s1)}, FALSE), Input(s2, {Zeros(s2)}, FALSE) >>
        IN  \E ld \in LeafData(ns) : Holds(ns, Constructed(ns, ld))

\* one more node may be built
MayBuild ==
    /\ ~panicked
    /\ Cardinality(Inner) < MaxBuilt

\* the cells after the node `node` with the data d and the gradient g has been added
\* to the graph; a constructor that panicked adds nothing
Built(st, node, d, g, op) ==
    LET ns == Append(nodes, node)
        called == [op |-> op, node |-> Len(ns), hit |-> FALSE]
    IN  IF d = ShapeError \/ g = ShapeError
        THEN [ns |-> nodes, st |-> [Panic(st) EXCEPT !.last = called]]
        ELSE [ns |-> ns,
              st |-> [st EXCEPT
                        !.data = Append(@, d),
                        !.computed = Append(@, FALSE),
                        !.gradient = Append(@, <<g>>),
                        !.overwrite = Append(@, TRUE),
                        !.buffer = Append(@, IF node.kind = "Division" THEN Zeros(g.shape)
                                             ELSE NoBuffer),
                        !.pushed = [n \in DOMAIN ns |-> Fresh(ns, 0)],
                        !.stale = Append(@, FALSE),
                        !.last = called]]

\* Division::new(l, r) and the new() of the backward node of the given variant
ConstructDivision(l, r, variant) ==
    /\ MayBuild
    /\ LET d == Division_new(data[l], data[r])
           g == IF variant = "Both"
                THEN DivisionBackward_new(gradient[l][1], gradient[r][1])
                ELSE IF variant = "Left"
                THEN DivisionBackward_new(gradient[l][1], data[r])
                ELSE DivisionBackward_new(data[l], gradient[r][1])
           b == Built(St, DivisionNode(l, r, variant, {}, FALSE), d, g, "Division::new")
       IN  BecomesGraph(b.ns, b.st)

\* MultiConcatenate::new(ops, axis, zeros(sh)) and MultiConcatenateBackward::new
ConstructConcatenate(ops, axis, sh) ==
    /\ MayBuild
    /\ LET b == Built(St, MultiConcatenateNode(ops, axis, sh, {}, FALSE),
                      MultiConcatenate_new(sh), MultiConcatenateBackward_new(sh),
                      "MultiConcatenate::new")
       IN  BecomesGraph(b.ns, b.st)

\* Unsqueeze::new(op, axis) and UnsqueezeBackward::new
ConstructUnsqueeze(op, axis) ==
    /\ MayBuild
    /\ LET b == Built(St, UnsqueezeNode(op, axis, {}, FALSE),
                      Unsqueeze_new(data[op], axis),
                      UnsqueezeBackward_new(gradient[op][1], axis), "Unsqueeze::new")
       IN  BecomesGraph(b.ns, b.st)

NextBuild ==
    \/ \E l, r \in Node : \E variant \in {"Both", "Left", "Right"} :
           ConstructDivision(l, r, variant)
    \/ \E l, r \in Node : \E axis \in {0, 1} : \E sh \in ConcatShapes :
           ConstructConcatenate(<<l, r>>, axis, sh)
    \/ \E op \in Node : \E axis \in 0..ndim(data[op].shape) : ConstructUnsqueeze(op, axis)

SpecBuild == InitBuild /\ [][NextBuild]_vars


-----------------------------------------------------------------------------
(* What the specification says a backward node pushes, written out index   *)
(* by index from the node's gradient g and its operands' data.             *)

\* the index of the target (of shape dim) that source index s is summed into
SummedInto(s, dim) ==
    [k \in 1..Len(dim) |-> IF dim[k] = 1 THEN 0 ELSE s[k + Len(s) - Len(dim)]]

RECURSIVE SumWhere(_, _, _, _)
\* the sum of the elements i, i+1, ... of src that are summed into index c of dim
SumWhere(src, dim, c, i) ==
    IF i > Prod(src.shape) THEN F(0)
    ELSE LET rest == SumWhere(src, dim, c, i + 1)
         IN  IF SummedInto(Unravel(src.shape, i - 1), dim) = c
             THEN FAdd(src.v[i], rest) ELSE rest

\* the analytic sum of src over its stretched axes, as an array of shape dim
AnalyticSum(src, dim) == Build(dim, LAMBDA c : SumWhere(src, dim, c, 1))

\* upstream / right, element by element over the broadcast shape
QuotientRule_left(g, r) ==
    Build(g.shape, LAMBDA c : FDiv(At(g, c), BroadcastAt(r, g.shape, c)))

\* -upstream * left / right^2, element by element over the broadcast shape
QuotientRule_right(g, l, r) ==
    Build(g.shape,
          LAMBDA c : FNeg(FDiv(FMul(At(g, c), BroadcastAt(l, g.shape, c)),
                               FMul(BroadcastAt(r, g.shape, c), BroadcastAt(r, g.shape, c)))))

RECURSIVE OffsetOf(_, _, _)
\* the sum of the extents along the axis of the gradients of operands 1..k-1
OffsetOf(ops, axis, k) ==
    IF k = 1 THEN 0
    ELSE OffsetOf(ops, axis, k - 1) + gradient[ops[k - 1]][1].shape[axis + 1]

\* what node n pushes to its i-th gradient operand, from the current state
Contribution(n, i) ==
    LET g == gradient[n][1]
        t == GradOperands(nodes, n)[i]
        dim == gradient[t][1].shape
    IN  IF nodes[n].kind = "Division"
        THEN IF nodes[n].variant = "Left" \/ (nodes[n].variant = "Both" /\ i = 1)
             THEN AnalyticSum(QuotientRule_left(g, data[right(nodes, n)]), dim)
             ELSE AnalyticSum(QuotientRule_right(g, data[left(nodes, n)],
                                                 data[right(nodes, n)]), dim)
        ELSE IF nodes[n].kind = "Unsqueeze"
        THEN [shape |-> RemoveAt(g.shape, nodes[n].axis + 1), v |-> g.v]
        ELSE LET off == OffsetOf(nodes[n].operands, nodes[n].axis, i)
             IN  Build(dim, LAMBDA c : At(g, [c EXCEPT ![nodes[n].axis + 1] = @ + off]))

\* node t is the i-th gradient operand of n and no other operand of n
OnlyOperand(n, i, t) ==
    /\ i \in DOMAIN GradOperands(nodes, n)
    /\ \A j \in DOMAIN GradOperands(nodes, n) : GradOperands(nodes, n)[j] = t <=> j = i

-----------------------------------------------------------------------------
(* Claims.                                                                 *)

\* C1: a push that finds the target's flag true replaces the target's buffer by the
\* pushed value, a push that finds it false adds the pushed value to the buffer, and
\* either way the flag is false afterwards; the buffer [5] with the flag true becomes
\* [2] by the push of [2] and then [5] by the push of [3].
C1_OverwriteThenAccumulate ==
    [][\A n \in Inner : \A i \in DOMAIN GradOperands(nodes, n) :
          LET t == GradOperands(nodes, n)[i]
          IN  (Backward(n) /\ OnlyOperand(n, i, t))
              => /\ ~overwrite'[t]
                 /\ gradient'[t] = IF overwrite[t] THEN <<Contribution(n, i)>>
                                   ELSE <<Plus(gradient[t][1], Contribution(n, i))>>
                 /\ (nodes = FanGraph /\ t = 2 /\ gradient[2] = <<Full(<<1>>, F(5))>>
                        /\ overwrite[2] /\ n = 3)
                    => gradient'[2] = <<Full(<<1>>, F(2))>>
                 /\ (nodes = FanGraph /\ t = 2 /\ gradient[2] = <<Full(<<1>>, F(2))>>
                        /\ ~overwrite[2] /\ n = 5)
                    => gradient'[2] = <<Full(<<1>>, F(5))>>]_vars

\* C1 witness: the division node of FanGraph received [2] and then [3]: it holds [5]
C1_Witness ==
    /\ nodes = FanGraph
    /\ pushed[2].open /\ pushed[2].times = <<0, 0, 1, 0, 1>>
    /\ gradient[2] = <<Full(<<1>>, F(5))>>
    /\ ~overwrite[2]


RECURSIVE SumOfContributions(_, _)
\* the sum of what the backward nodes cs push to x, each once, smallest id first
SumOfContributions(x, cs) ==
    LET c == CHOOSE c \in cs : \A d \in cs : c <= d
        i == CHOOSE i \in DOMAIN GradOperands(nodes, c) : GradOperands(nodes, c)[i] = x
    IN  IF cs = {c} THEN Contribution(c, i)
        ELSE Plus(Contribution(c, i), SumOfContributions(x, cs \ {c}))

\* node x was constructed or reset (flag true) and since then each of the backward
\* nodes cs has pushed into it exactly once, and nothing else has written it
EachPushedOnce(x, cs) ==
    /\ pushed[x].open
    /\ \A c \in Node : pushed[x].times[c] = IF c \in cs THEN 1 ELSE 0
    /\ \A c \in cs : \E i \in DOMAIN GradOperands(nodes, c) : OnlyOperand(c, i, x)

\* C2: when the flag of a node with k >= 2 consumers was true and every consumer's
\* backward() has run once, in whatever order, the node's gradient is the sum of the k
\* contributions (and holds nothing of what it held before).
C2_FanInSum ==
    \A x \in Node :
        LET cs == Consumers(nodes, x)
        IN  (Cardinality(cs) >= 2 /\ EachPushedOnce(x, cs))
            => /\ gradient[x] = pushed[x].sum
               /\ (\A c \in cs : Consumers(nodes, c) = {})
                  => gradient[x] = <<SumOfContributions(x, cs)>>

\* C2 witness: the three consumers of FanGraph's division node have run: 2 + 4 + 3
C2_Witness ==
    /\ nodes = FanGraph
    /\ EachPushedOnce(2, {3, 4, 5})
    /\ gradient[2] = <<Full(<<1>>, F(9))>>

\* the last call made on a forward node was `op` on node n
LastCall(op, n, hit) == last = [op |-> op, node |-> n, hit |-> hit]

\* C3: forward() on a node whose was_computed() is true changes neither a data buffer
\* nor a computed flag, whatever has happened to the operands' data since; forward()
\* on a node whose flag is false (after construction or reset_computation()) sets the
\* flag and fills the node's buffer from the operands' current data, and nothing else
\* does: reset_computation() only clears the flag.
C3_Memoization ==
    [][\A n \in Inner :
          /\ (Forward(n) /\ was_computed(computed, n))
             => (data' = data /\ computed' = computed)
          /\ (Forward(n) /\ ~was_computed(computed, n))
             => /\ was_computed(computed', n)
                /\ data'[n] = Compute(nodes, data, n)
                /\ \A m \in Node \ {n} : data'[m] = data[m] /\ computed'[m] = computed[m]
          /\ ResetComputation(n)
             => (data' = data /\ ~was_computed(computed', n))]_vars

\* C3 witness: forward() has just been called on a computed node whose operand had
\* changed, and the buffer still is not what the operands give now
C3_Witness ==
    \E n \in Inner :
        /\ LastCall("forward", n, TRUE)
        /\ was_computed(computed, n)
        /\ stale[n]
        /\ data[n] # Compute(nodes, data, n)

\* C4 as stated: was_computed() is true if and only if the buffer equals the operator
\* applied to the operands' current data.
C4_AsStated ==
    \A n \in Inner : was_computed(computed, n) <=> data[n] = Compute(nodes, data, n)

\* C4: when was_computed() is true and no operand's data has changed since the node
\* was last computed, the buffer equals the operator applied to the operands' current
\* data.
C4_CacheValidity ==
    \A n \in Inner :
        (was_computed(computed, n) /\ ~stale[n]) => data[n] = Compute(nodes, data, n)

\* C4 witness: in the chain, the division was recomputed after a write to its operand
\* and is valid, while the unsqueeze that reads it is computed but out of date
C4_Witness ==
    /\ nodes = ChainGraph
    /\ was_computed(computed, 3) /\ ~stale[3]
    /\ LastCall("forward", 3, FALSE)
    /\ data[3] = Compute(nodes, data, 3)
    /\ was_computed(computed, 4) /\ stale[4]
    /\ data[4] # Compute(nodes, data, 4)

\* the pairs <<c, i>> such that node x is the i-th gradient operand of backward node c
PushesInto(x) ==
    UNION {{<<c, i>> : i \in {j \in DOMAIN GradOperands(nodes, c) :
                                 GradOperands(nodes, c)[j] = x}} : c \in Inner}

RECURSIVE SumOfPushes(_)
\* the sum of the contributions ps, each taken once
SumOfPushes(ps) ==
    LET p == CHOOSE p \in ps :
                 \A q \in ps : p[1] < q[1] \/ (p[1] = q[1] /\ p[2] <= q[2])
    IN  IF ps = {p} THEN Contribution(p[1], p[2])
        ELSE Plus(Contribution(p[1], p[2]), SumOfPushes(ps \ {p}))

\* a backward pass has just begun / has run to its end
PassBegun == pass.no >= 1 /\ pass.todo = BackwardOrder(nodes)
PassDone == pass.no >= 1 /\ pass.todo = <<>> /\ ~panicked

C6_BroadcastReduce ==
    [][\A n \in Inner :
          LET i == Len(GradOperands(nodes, n))
              t == GradOperands(nodes, n)[i]
              dim == gradient[t][1].shape
              sum == AnalyticSum(buffer'[n], dim)
              ones == Full(<<3, 4>>, F(1))
          IN  (nodes[n].kind = "Division" /\ Backward(n) /\ OnlyOperand(n, i, t))
              => /\ sum.shape = dim
                 /\ gradient'[t][1].shape = dim
                 /\ gradient'[t] = IF overwrite[t] THEN <<sum>>
                                   ELSE <<Plus(gradient[t][1], sum)>>
                 /\ (buffer'[n] = ones /\ overwrite[t] /\ dim = <<1, 4>>)
                    => gradient'[t] = <<Full(<<1, 4>>, F(3))>>
                 /\ (buffer'[n] = ones /\ overwrite[t] /\ dim = <<3, 1>>)
                    => gradient'[t] = <<Full(<<3, 1>>, F(4))>>]_vars

\* C6 witness: both divisions of BroadcastGraph have pushed a 3x4 scratch buffer of
\* ones, one into the 1x4 leaf and one into the 3x1 leaf
C6_Witness ==
    /\ nodes = BroadcastGraph
    /\ buffer[3] = Full(<<3, 4>>, F(1)) /\ buffer[4] = Full(<<3, 4>>, F(1))
    /\ pushed[1].open /\ pushed[1].times = <<0, 0, 1, 0>>
    /\ pushed[2].open /\ pushed[2].times = <<0, 0, 0, 1>>
    /\ gradient[1] = <<Full(<<1, 4>>, F(3))>>
    /\ gradient[2] = <<Full(<<3, 1>>, F(4))>>

\* C7: one backward() call of a DivisionBackward pushes to the left operand the
\* reduction of g / right and to the right operand the reduction of
\* -g * left / right^2, g being the node's gradient as it was before the call (the
\* node's own gradient is not changed); for left = [6], right = [2] and g = [1] the
\* left operand receives [0.5] and the right operand [-1.5].
C7_DivisionGradient ==
    [][\A n \in Inner :
          LET l == left(nodes, n)
              r == right(nodes, n)
              g == gradient[n][1]
              dl == AnalyticSum(QuotientRule_left(g, data[r]), gradient[l][1].shape)
              dr == AnalyticSum(QuotientRule_right(g, data[l], data[r]),
                                gradient[r][1].shape)
          IN  (nodes[n].kind = "Division" /\ nodes[n].variant = "Both" /\ Backward(n)
               /\ l # r)
              => /\ gradient'[l] = IF overwrite[l] THEN <<dl>>
                                   ELSE <<Plus(gradient[l][1], dl)>>
                 /\ gradient'[r] = IF overwrite[r] THEN <<dr>>
                                   ELSE <<Plus(gradient[r][1], dr)>>
                 /\ gradient'[n] = gradient[n]
                 /\ (/\ data[l] = Full(<<1>>, F(6)) /\ data[r] = Full(<<1>>, F(2))
                     /\ g = Full(<<1>>, F(1)) /\ overwrite[l] /\ overwrite[r])
                    => /\ gradient'[l] = <<Full(<<1>>, FDiv(F(1), F(2)))>>
                       /\ gradient'[r] = <<Full(<<1>>, FDiv(F(-3), F(2)))>>]_vars

\* C7 witness: the division of the chain has run once on left = [6], right = [2] and
\* the gradient [1]
C7_Witness ==
    /\ nodes = ChainGraph
    /\ data[1] = Full(<<1>>, F(6)) /\ data[2] = Full(<<1>>, F(2))
    /\ gradient[3] = <<Full(<<1>>, F(1))>>
    /\ pushed[1].open /\ pushed[1].times = <<0, 0, 1, 0>>
    /\ pushed[2].open /\ pushed[2].times = <<0, 0, 1, 0>>
    /\ gradient[1] = <<Full(<<1>>, FDiv(F(1), F(2)))>>
    /\ gradient[2] = <<Full(<<1>>, FDiv(F(-3), F(2)))>>

\* every multi-index of an array of the given shape
Coordinates(sh) == {Unravel(sh, i - 1) : i \in 1..Prod(sh)}

\* the element of t that the index c of a broadcast shape falls on
StretchedAt(t, c) == At(t, SummedInto(c, t.shape))

\* the broadcast shape of two shapes: aligned at the last axis, the larger extent
BroadcastOf(s1, s2) ==
    LET r == IF Len(s1) >= Len(s2) THEN Len(s1) ELSE Len(s2)
        pad(sh, k) == IF k > r - Len(sh) THEN sh[k - (r - Len(sh))] ELSE 1
    IN  [k \in 1..r |-> IF pad(s1, k) >= pad(s2, k) THEN pad(s1, k) ELSE pad(s2, k)]

\* C8: the data buffer of a Division node has the broadcast shape of its operands'
\* shapes, before and after any call; forward() on a node not computed (after
\* construction or reset_computation()) sets was_computed() and makes every element
\* of the buffer the quotient of the left and the right operand's elements that the
\* index falls on under broadcasting (6 / 2 gives 3).
C8_DivisionForward ==
    [][\A n \in Inner :
          LET l == data[left(nodes, n)]
              r == data[right(nodes, n)]
              sh == BroadcastOf(l.shape, r.shape)
          IN  nodes[n].kind = "Division"
              => /\ data[n].shape = sh /\ data'[n].shape = sh
                 /\ (Forward(n) /\ ~was_computed(computed, n))
                    => /\ was_computed(computed', n)
                       /\ \A c \in Coordinates(sh) :
                              At(data'[n], c) = FDiv(StretchedAt(l, c), StretchedAt(r, c))
                       /\ (l = Full(<<1>>, F(6)) /\ r = Full(<<1>>, F(2)))
                          => data'[n] = Full(<<1>>, F(3))]_vars

\* C8 witness: the division of the 1x4 array 1 2 4 2 by the 3x1 array of 2s has just
\* been computed: three rows 1/2 1 2 1
C8_Witness ==
    /\ nodes = BroadcastGraph
    /\ LastCall("forward", 3, FALSE)
    /\ was_computed(computed, 3)
    /\ data[1].v = <<F(1), F(2), F(4), F(2)>>
    /\ data[2] = Full(<<3, 1>>, F(2))
    /\ data[3] = [shape |-> <<3, 4>>,
                  v |-> <<FDiv(F(1), F(2)), F(1), F(2), F(1),
                          FDiv(F(1), F(2)), F(1), F(2), F(1),
                          FDiv(F(1), F(2)), F(1), F(2), F(1)>>]

\* the extent along its axis of the data of the k-th operand of concatenation n
Extent(n, k) == data[nodes[n].operands[k]].shape[nodes[n].axis + 1]

RECURSIVE DataOffset(_, _)
\* the sum of the extents of the operands before the k-th
DataOffset(n, k) == IF k = 1 THEN 0 ELSE DataOffset(n, k - 1) + Extent(n, k - 1)

\* the positions along the axis of the slice of the k-th operand
SliceOf(n, k) == DataOffset(n, k) .. (DataOffset(n, k) + Extent(n, k) - 1)

\* C9: forward() on a MultiConcatenate node not computed copies operand k, for each k
\* in the order of the operands, to the positions offset_k .. offset_k + len_k - 1 of
\* the output along the axis, len_k being the operand's extent along the axis and
\* offset_k the sum of the extents of the operands before it; the slices of two
\* operands do not meet; and the operands given in the other order give another
\* result (2x3 and 2x2 along axis 1).
C9_ConcatenateForward ==
    [][\A n \in Inner :
          LET ops == nodes[n].operands
              ax == nodes[n].axis + 1
          IN  (nodes[n].kind = "MultiConcatenate" /\ Forward(n)
               /\ ~was_computed(computed, n))
              => /\ \A k \in DOMAIN ops : \A c \in Coordinates(data[ops[k]].shape) :
                        At(data'[n], [c EXCEPT ![ax] = @ + DataOffset(n, k)])
                            = At(data[ops[k]], c)
                 /\ \A j, k \in DOMAIN ops : j # k => SliceOf(n, j) \cap SliceOf(n, k) = {}
                 /\ (nodes = ConcatGraph /\ data[2] = Iota(<<2, 2>>, 7))
                    => /\ data'[n].v = <<F(1), F(2), F(3), F(7), F(8),
                                         F(4), F(5), F(6), F(9), F(10)>>
                       /\ data'[n] # MultiConcatenate_compute(data[n], <<data[2], data[1]>>,
                                                              nodes[n].axis, 0, 1)]_vars

\* C9 witness: the concatenation of 1..6 (2x3) and 7..10 (2x2) along axis 1 has just
\* been computed
C9_Witness ==
    /\ nodes = ConcatGraph
    /\ LastCall("forward", 3, FALSE)
    /\ data[3] = [shape |-> <<2, 5>>,
                  v |-> <<F(1), F(2), F(3), F(7), F(8), F(4), F(5), F(6), F(9), F(10)>>]

\* the operands of n are pairwise different nodes
DistinctOperands(n) ==
    \A j, k \in DOMAIN nodes[n].operands :
        j # k => nodes[n].operands[j] # nodes[n].operands[k]

\* C10: backward() of a MultiConcatenateBackward whose operands are different nodes,
\* each with a gradient of the shape of its data and its flag true, leaves in the
\* operands' gradients the parts g_1 .. g_n of which the node's gradient is the
\* concatenation: concatenating them again gives the node's gradient, and each is the
\* slice at its offset (a 2x5 gradient splits into its 2x3 and 2x2 parts along axis 1).
C10_ConcatenateRoundTrip ==
    [][\A n \in Inner :
          LET ops == nodes[n].operands
              g == gradient[n][1]
          IN  (/\ nodes[n].kind = "MultiConcatenate" /\ Backward(n) /\ DistinctOperands(n)
               /\ \A k \in DOMAIN ops : /\ can_overwrite(overwrite, ops[k])
                                        /\ gradient[ops[k]][1].shape = data[ops[k]].shape)
              => /\ MultiConcatenate_compute(Zeros(g.shape),
                                             [k \in DOMAIN ops |-> gradient'[ops[k]][1]],
                                             nodes[n].axis, 0, 1) = g
                 /\ \A k \in DOMAIN ops : gradient'[ops[k]] = <<Contribution(n, k)>>
                 /\ (nodes = ConcatGraph /\ g = Iota(<<2, 5>>, 1))
                    => /\ gradient'[1][1].v = <<F(1), F(2), F(3), F(6), F(7), F(8)>>
                       /\ gradient'[2][1].v = <<F(4), F(5), F(9), F(10)>>]_vars

\* C10 witness: the 2x5 gradient 1..10 has been split into its 2x3 and 2x2 parts
C10_Witness ==
    /\ nodes = ConcatGraph
    /\ gradient[3] = <<Iota(<<2, 5>>, 1)>>
    /\ pushed[1].open /\ pushed[1].times = <<0, 0, 1>>
    /\ pushed[2].open /\ pushed[2].times = <<0, 0, 1>>
    /\ gradient[1] = <<[shape |-> <<2, 3>>, v |-> <<F(1), F(2), F(3), F(6), F(7), F(8)>>]>>
    /\ gradient[2] = <<[shape |-> <<2, 2>>, v |-> <<F(4), F(5), F(9), F(10)>>]>>

\* the last call was `op` on a backward node that had no gradient buffer
CalledWithoutBuffer(op) == last.op = op /\ ~last.hit

\* C11 as stated: on every backward node, a call of backward(), gradient() or
\* gradient_mut() made while the gradient buffer is absent (after no_grad() and before
\* any with_grad()) ends in a panic.
C11_AsStated ==
    (CalledWithoutBuffer("backward") \/ CalledWithoutBuffer("gradient")) => panicked

\* the sum of the extents along the axis of the first k operands of the node n
RECURSIVE ExtentSum(_, _)
ExtentSum(n, k) == IF k = 0 THEN 0 ELSE ExtentSum(n, k - 1) + Extent(n, k)

\* the concatenation rule: operands of one rank that contains the axis, extents off
\* the axis equal to the output's, the output's extent along the axis their sum
ConcatenationRule(n) ==
    LET node == nodes[n]
        out == data[n].shape
    IN  /\ node.axis < Len(out)
        /\ \A k \in DOMAIN node.operands :
              LET s == data[node.operands[k]].shape
              IN  /\ Len(s) = Len(out)
                  /\ \A a \in DOMAIN out : a # node.axis + 1 => s[a] = out[a]
        /\ (\A k \in DOMAIN node.operands : Len(data[node.operands[k]].shape) = Len(out))
              => out[node.axis + 1] = ExtentSum(n, Len(node.operands))

\* C12 as stated: a MultiConcatenate / MultiConcatenateBackward node whose operand
\* shapes, axis or supplied output shape break the concatenation rule is rejected when
\* it is constructed, so that every concatenation node of a graph obeys the rule.
C12_AsStated ==
    \A n \in Inner : nodes[n].kind = "MultiConcatenate" => ConcatenationRule(n)

\* two shapes broadcast together: aligned at the last axis, the extents of each axis
\* are equal or one of them is 1
Broadcastable(s1, s2) ==
    LET r == IF Len(s1) >= Len(s2) THEN Len(s1) ELSE Len(s2)
        pad(sh, k) == IF k > r - Len(sh) THEN sh[k - (r - Len(sh))] ELSE 1
    IN  \A k \in 1..r : pad(s1, k) = pad(s2, k) \/ pad(s1, k) = 1 \/ pad(s2, k) = 1

\* C13: the construction of a Division node and of its backward node, of any of the
\* three variants, on operands whose shapes do not broadcast together panics and adds
\* no node to the graph; on operands that do, the node's data and gradient have the
\* operands' broadcast shape; no Division node of a graph has any other shape.
C13_DivisionShapeMismatch ==
    /\ [][\A l, r \in Node : \A variant \in {"Both", "Left", "Right"} :
            ConstructDivision(l, r, variant) =>
                IF Broadcastable(data[l].shape, data[r].shape)
                THEN /\ ~panicked'
                     /\ Len(nodes') = Len(nodes) + 1
                     /\ data'[Len(nodes')].shape = BroadcastOf(data[l].shape, data[r].shape)
                     /\ gradient'[Len(nodes')][1].shape
                            = BroadcastOf(data[l].shape, data[r].shape)
                ELSE panicked' /\ nodes' = nodes /\ data' = data /\ gradient' = gradient]_vars
    /\ [](\A n \in Inner : nodes[n].kind = "Division" =>
            /\ Broadcastable(data[left(nodes, n)].shape, data[right(nodes, n)].shape)
            /\ data[n].shape = BroadcastOf(data[left(nodes, n)].shape,
                                           data[right(nodes, n)].shape)
            /\ gradient[n][1].shape = data[n].shape)

\* 2x3 and 2x2 leaves: the construction of their quotient has panicked and the graph
\* is the two leaves
C13_Witness ==
    /\ panicked
    /\ last.op = "Division::new"
    /\ Len(nodes) = 2
    /\ data[1].shape = <<2, 3>>
    /\ data[2].shape = <<2, 2>>

RECURSIVE DeclaredShape(_)
\* the shape a node is constructed with: a leaf's own, the broadcast shape of a
\* division's operands, the operand's shape with one more axis, the shape handed to
\* the concatenation
DeclaredShape(n) ==
    IF nodes[n].kind = "Division"
    THEN BroadcastOf(DeclaredShape(left(nodes, n)), DeclaredShape(right(nodes, n)))
    ELSE IF nodes[n].kind = "Unsqueeze"
    THEN LET s == DeclaredShape(operand(nodes, n))
         IN  [k \in 1..(Len(s) + 1) |->
                IF k <= nodes[n].axis THEN s[k]
                ELSE IF k = nodes[n].axis + 1 THEN 1 ELSE s[k - 1]]
    ELSE nodes[n].shape

\* the cells of the nodes other than n, and the data, the flags and the scratch buffers
\* of all nodes, stay as they are
OnlyGradientOf(n) ==
    /\ \A m \in Node : m # n => gradient'[m] = gradient[m]
    /\ UNCHANGED <<data, computed, overwrite, buffer, panicked>>

\* C14: no_grad() leaves the node without a gradient buffer and touches nothing else,
\* so that a second no_grad() changes nothing; with_grad(), after no_grad() or not,
\* leaves a buffer of zeros of the shape the node was constructed with.
C14_NoGradWithGrad ==
    [][\A n \in Inner :
         /\ NoGrad(n) => /\ gradient'[n] = <<>>
                         /\ OnlyGradientOf(n)
                         /\ gradient[n] = <<>> => gradient' = gradient
         /\ WithGrad(n) => /\ gradient'[n] = <<Zeros(DeclaredShape(n))>>
                           /\ OnlyGradientOf(n)]_vars

\* the 2x2 quotient of SideGraph, seeded with 4s: with_grad() was called while the
\* buffer was absent and the buffer is 2x2 zeros
C14_Witness ==
    /\ nodes = SideGraph
    /\ last = [op |-> "with_grad", node |-> 3, hit |-> FALSE]
    /\ gradient[3] = <<Zeros(<<2, 2>>)>>

\* the nodes whose gradients backward() of node n pushes into
PushedInto(n) == {GradOperands(nodes, n)[i] : i \in DOMAIN GradOperands(nodes, n)}

\* C15: a call of backward() on a node, whether it completes or panics, leaves the
\* node's own gradient buffer and own overwrite flag, the data buffer and the computed
\* flag of every forward node, and the gradient and the flag of every node that is not
\* one of its differentiable operands as they were; what changes is the gradients and
\* the flags of those operands.
C15_BackwardFrame ==
    [][\A n \in Inner :
         BackwardCall(n) =>
            /\ gradient'[n] = gradient[n]
            /\ overwrite'[n] = overwrite[n]
            /\ data' = data
            /\ computed' = computed
            /\ \A m \in Node \ PushedInto(n) :
                  gradient'[m] = gradient[m] /\ overwrite'[m] = overwrite[m]]_vars

\* backward() of the quotient [6] / [2] of GradChain with the gradient [1] has pushed
\* [1/2] and [-3/2] into its operands and cleared their flags; its own gradient and
\* flag and the unsqueeze node's are as before
C15_Witness ==
    /\ nodes = GradChain
    /\ last = [op |-> "backward", node |-> 3, hit |-> TRUE]
    /\ gradient[1] = <<Full(<<1>>, FDiv(F(1), F(2)))>>
    /\ gradient[2] = <<Full(<<1>>, FDiv(F(-3), F(2)))>>
    /\ ~overwrite[1] /\ ~overwrite[2]
    /\ gradient[3] = <<Full(<<1>>, F(1))>> /\ overwrite[3]
    /\ gradient[4] = <<Full(<<1, 1>>, F(2))>> /\ overwrite[4]

\* C16: in every state reached by backward(), the pushes it makes into the operands,
\* no_grad() and with_grad() from a constructed graph, the gradient of a node is absent
\* or has exactly the shape the node was constructed with.
C16_GradientShape ==
    \A n \in Node : gradient[n] = <<>> \/ gradient[n][1].shape = DeclaredShape(n)

\* backward() of the 2x2 quotient x / y of SideGraph has pushed into the 2-element
\* leaf x: the gradient of x is no longer zeros and still has the shape (2)
C16_Witness ==
    /\ nodes = SideGraph
    /\ last = [op |-> "backward", node |-> 4, hit |-> TRUE]
    /\ ~overwrite[1]
    /\ gradient[1] # <<Zeros(<<2>>)>>
    /\ gradient[1][1].shape = <<2>>
    /\ gradient[4][1].shape = <<2, 2>>

\* the rates 2, 1/5, 2/5, 1/25 and 1/10, 1/5, 1/50, 1/25
RatesAB == <<F(2), FDiv(F(1), F(5)), FDiv(F(2), F(5)), FDiv(F(1), F(25))>>

RatesBA == <<FDiv(F(1), F(10)), FDiv(F(1), F(5)), FDiv(F(1), F(50)), FDiv(F(1), F(25))>>

\* the rates left by the steps A, B, A, B and by the steps B, A, B, A
RatesInOrder ==
    /\ (optim.steps = <<"A", "B", "A", "B">>) => (optim.rates = RatesAB)
    /\ (optim.steps = <<"B", "A", "B", "A">>) => (optim.rates = RatesBA)
    /\ RatesAB # RatesBA

C18_StepPreparation ==
    [][\A s \in DOMAIN Schedulers :
         Step(s) => /\ get_last_lr(optim', s) = get_current_lr(optim, s)
                    /\ get_current_epoch(optim', s) = get_current_epoch(optim, s) + 1]_vars

\* A has been stepped a second time after a step of B: its last rate is 2, the rate
\* its first step computed, while the optimizer held 1/5 before the step
C18_Witness ==
    /\ optim.steps = <<"A", "B", "A">>
    /\ optim.call = <<"step", 1>>
    /\ get_last_lr(optim, 1) = F(2)
    /\ get_current_lr(optim, 1) = FDiv(F(2), F(5))
    /\ get_current_epoch(optim, 1) = 2

\* the rates and the epochs of the optimizer and of all schedulers stay as they are
SchedulersUnchanged ==
    /\ optim'.lr = optim.lr
    /\ optim'.last_lr = optim.last_lr
    /\ optim'.current_lr = optim.current_lr
    /\ optim'.current_epoch = optim.current_epoch

\* C19: the epoch of a scheduler changes only in its step() or its set_current_epoch(),
\* it becomes smaller only in set_current_epoch(), and get_last_lr(), get_current_lr(),
\* get_current_epoch() and print_lr() change no rate and no epoch of any scheduler or
\* of the optimizer.
C19_EpochMonotonic ==
    [][\A s \in DOMAIN Schedulers :
         /\ optim'.current_epoch[s] # optim.current_epoch[s]
               => optim'.call \in {<<"step", s>>, <<"set_current_epoch", s>>}
         /\ optim'.current_epoch[s] < optim.current_epoch[s]
               => optim'.call = <<"set_current_epoch", s>>
         /\ (GetLastLr(s) \/ GetCurrentLr(s) \/ GetCurrentEpoch(s) \/ PrintLr(s))
               => SchedulersUnchanged]_vars

\* print_lr() of A after its first step has printed epoch 1 and the rate 2, and the
\* epoch and the rates are still those
C19_Witness ==
    /\ optim.steps = <<"A">>
    /\ optim.call = <<"print_lr", 1>>
    /\ optim.out = <<[epoch |-> 1, lr |-> F(2)]>>
    /\ optim.current_epoch[1] = 1
    /\ optim.current_lr[1] = F(2)
    /\ optim.lr = F(2)

\* the events leave no borrow behind
RECURSIVE HeldAtEnd(_, _, _)
HeldAtEnd(events, k, held) ==
    IF k > Len(events) THEN held ELSE HeldAtEnd(events, k + 1, HeldAfter(held, events[k]))

\* C20: in every state reached by forward() and backward() calls made one after the
\* other by a caller that holds no borrow, on graphs where one node is both operands of
\* a division or twice an operand of a concatenation, no call has panicked, and the
\* next call of forward() or backward() on any node is refused no borrow and gives
\* back every borrow it takes.
C20_NoBorrowConflict ==
    /\ ~panicked
    /\ \A n \in Inner :
          /\ ~BorrowConflict(forward_borrows(nodes, computed, n))
          /\ ~BorrowConflict(backward_borrows(nodes, n))
          /\ HeldAtEnd(forward_borrows(nodes, computed, n), 1, <<>>) = <<>>
          /\ HeldAtEnd(backward_borrows(nodes, n), 1, <<>>) = <<>>

\* backward() of x / x has pushed twice into the gradient of x, and backward() of the
\* concatenation of a node with itself twice into that node's
C20_Witness ==
    /\ last.op = "backward"
    /\ last.hit
    /\ ~panicked
    /\ \/ nodes = SelfGraph /\ last.node = 2 /\ pushed[1].times[2] = 2
       \/ nodes = TwiceGraph /\ last.node = 2 /\ pushed[1].times[2] = 2

\* an operand of node n is a forward node that has not been computed
OperandPending(n) ==
    \E k \in DOMAIN nodes[n].operands :
        nodes[nodes[n].operands[k]].kind # "Input" /\ ~was_computed(computed, nodes[n].operands[k])

\* C21: forward() on a node leaves the data buffer and the computed flag of every
\* other node, its operands among them, as they were, and leaves the node computed;
\* called while an operand has not been computed it fills the node from what the
\* operand's buffer holds then; and since a forward() on the operand afterwards is
\* such a call too, it leaves the node's buffer and flag alone.
C21_ForwardDoesNotDrive ==
    [][\A n \in Inner :
          Forward(n) =>
             /\ \A m \in Node \ {n} : data'[m] = data[m] /\ computed'[m] = computed[m]
             /\ was_computed(computed', n)
             /\ (OperandPending(n) /\ ~was_computed(computed, n))
                   => /\ data'[n] = Compute(nodes, data, n)
                      /\ OperandPending(n)']_vars

\* in FanGraph the quotient d / x was computed while d = x / x was not, and d has
\* been computed since: d is 1, d / x still is the 0 / 2 it got from the empty buffer
C21_Witness ==
    /\ nodes = FanGraph
    /\ LastCall("forward", 2, FALSE)
    /\ was_computed(computed, 2) /\ was_computed(computed, 4)
    /\ data[1] = Full(<<1>>, F(2))
    /\ data[2] = Full(<<1>>, F(1))
    /\ data[4] = Full(<<1>>, F(0))
    /\ data[4] # Compute(nodes, data, 4)

\* the accumulators x and y have had the same number of pushes, x from the backward
\* node c only and y from the backward node d only, since their flags were true
PushedAlike(x, c, y, d) ==
    /\ pushed[x].open /\ pushed[y].open
    /\ pushed[x].times[c] >= 1
    /\ pushed[x].times[c] = pushed[y].times[d]
    /\ pushed[x].count = pushed[x].times[c]
    /\ pushed[y].count = pushed[y].times[d]

\* backward() of node n has changed no gradient and no flag but those of node t
OnlyInto(n, t) ==
    Backward(n) => \A m \in Node \ {t} :
                      gradient'[m] = gradient[m] /\ overwrite'[m] = overwrite[m]

\* the left-only node has left in its left operand, and the right-only node in its
\* right operand, what the node of both operands has left in its own
SameAfterAsManyCalls ==
    /\ PushedAlike(1, 7, 3, 8) => gradient[3] = gradient[1]
    /\ PushedAlike(2, 7, 6, 9) => gradient[6] = gradient[2]

PositionsOf(n, x) ==
    {i \in DOMAIN GradOperands(nodes, n) : GradOperands(nodes, n)[i] = x}

\* C23: when a node is a gradient operand of a backward node at two positions or more
\* and its flag is true, one call of backward() on the backward node leaves its
\* gradient equal to the sum of the contributions of all those positions, nothing of
\* what it held before, and its flag false.
C23_RepeatedOperand ==
    [][\A n \in Inner : \A x \in Node :
          (Backward(n) /\ Cardinality(PositionsOf(n, x)) >= 2 /\ can_overwrite(overwrite, x))
             => /\ ~panicked'
                /\ gradient'[x] = <<SumOfPushes({<<n, i>> : i \in PositionsOf(n, x)})>>
                /\ ~can_overwrite(overwrite', x)]_vars

\* the 1x2 leaf is the first and the third operand of the concatenation along axis 0
\* whose gradient is 1 .. 8: one backward() has left 1 2 + 7 8 in it
C23_Witness ==
    /\ nodes = ConcatGraph0
    /\ pushed[1].open
    /\ pushed[1].times[3] = 2 /\ pushed[1].count = 2
    /\ pushed[2].count = 1
    /\ ~can_overwrite(overwrite, 1)
    /\ gradient[1] = <<[shape |-> <<1, 2>>, v |-> <<F(8), F(10)>>]>>

\* the gradient of x after the contributions ps have been pushed into it
AfterPushes(x, ps) ==
    IF can_overwrite(overwrite, x) THEN <<SumOfPushes(ps)>>
    ELSE <<Plus(gradient[x][1], SumOfPushes(ps))>>

\* the first position of the backward node n whose operand has no gradient buffer
\* (0 when every operand has one)
FirstAbsent(n) ==
    LET ops == GradOperands(nodes, n)
        absent == {i \in DOMAIN ops : gradient[ops[i]] = <<>>}
    IN  IF absent = {} THEN 0 ELSE CHOOSE i \in absent : \A j \in absent : i <= j

\* C24: backward() of a DivisionBackward or a MultiConcatenateBackward that has its own
\* gradient, called while some operand has no gradient buffer, panics; every operand
\* that comes before the first one without a buffer has by then received its
\* contribution and has its flag false, and the operands that come after it and not
\* before it are as they were.
C24_PartialEffect ==
    [][\A n \in Inner :
          LET ops == GradOperands(nodes, n)
              k == FirstAbsent(n)
              before == {ops[i] : i \in 1..(k - 1)}
          IN  (BackwardCall(n) /\ gradient[n] # <<>> /\ k >= 1
                 /\ nodes[n].kind \in {"Division", "MultiConcatenate"})
              => /\ panicked'
                 /\ \A x \in before :
                       /\ gradient'[x] = AfterPushes(x, {<<n, i>> : i \in PositionsOf(n, x) \cap 1..(k - 1)})
                       /\ ~can_overwrite(overwrite', x)
                 /\ \A x \in Node \ before :
                       gradient'[x] = gradient[x] /\ overwrite'[x] = overwrite[x]]_vars

\* a / q with the gradient [2], q without a buffer: backward() has panicked, and a
\* holds [2] / q = [2] / [3] and its flag is false
C24_Witness ==
    /\ nodes = PartialDivision
    /\ last = [op |-> "backward", node |-> 4, hit |-> TRUE]
    /\ panicked
    /\ gradient[3] = <<>>
    /\ pushed[1].count = 1
    /\ gradient[1] = <<Full(<<1>>, FDiv(F(2), F(3)))>>
    /\ ~can_overwrite(overwrite, 1)

\* the cells of the operands of node n stay as they are
OperandsUntouched(n) ==
    \A k \in DOMAIN nodes[n].operands :
        LET m == nodes[n].operands[k]
        IN  /\ gradient'[m] = gradient[m]
            /\ overwrite'[m] = overwrite[m]
            /\ buffer'[m] = buffer[m]
            /\ data'[m] = data[m]

\* C25: no_grad() and with_grad() on a backward node leave its overwrite flag, its
\* scratch buffer and every cell of its operands as they were; with_grad() on a node
\* that has a buffer puts zeros in the place of what was accumulated; and when the
\* flag of the node is false and its buffer zeros, as after no_grad() and with_grad(),
\* the next push of a backward node that has it as one operand adds to the zeros and
\* the flag stays false.
C25_GradSwitchFrame ==
    [][\A n \in Inner :
          /\ (NoGrad(n) \/ WithGrad(n))
                => /\ overwrite'[n] = overwrite[n]
                   /\ buffer'[n] = buffer[n]
                   /\ OperandsUntouched(n)
          /\ (WithGrad(n) /\ gradient[n] # <<>>)
                => gradient'[n] = <<Zeros(gradient[n][1].shape)>>
          /\ \A c \in Inner : \A i \in DOMAIN GradOperands(nodes, c) :
                (BackwardCall(c) /\ OnlyOperand(c, i, n) /\ gradient[c] # <<>>
                   /\ ~can_overwrite(overwrite, n)
                   /\ gradient[n] = <<Zeros(DeclaredShape(n))>>)
                => /\ gradient'[n] = <<Plus(Zeros(DeclaredShape(n)), Contribution(c, i))>>
                   /\ ~can_overwrite(overwrite', n)]_vars

\* in GradChain the quotient got [2] from the unsqueeze, lost its buffer by no_grad(),
\* got zeros by with_grad() and then [2] again from the unsqueeze: it holds [2], not
\* [4], after two pushes
C25_Witness ==
    /\ nodes = GradChain
    /\ last = [op |-> "backward", node |-> 4, hit |-> TRUE]
    /\ pushed[3].count = 2
    /\ ~can_overwrite(overwrite, 3)
    /\ gradient[3] = <<Full(<<1>>, F(2))>>

\* the unsqueezes of the graph
Unsqueezes == {n \in Inner : nodes[n].kind = "Unsqueeze"}

\* the array t without its axis of extent 1 at the axis, as an array of the shape s
Squeezed(t, axis, s) ==
    [shape |-> s,
     v |-> [k \in 1..Prod(s) |->
               At(t, InsertAt(Unravel(s, k - 1), axis + 1, 0))]]

\* the data and the gradient of every unsqueeze have the shape of the operand's with
\* an axis of extent 1 inserted at the axis
UnsqueezedShapes ==
    \A n \in Unsqueezes :
        LET x == operand(nodes, n)
            axis == nodes[n].axis
        IN  /\ Len(data[n].shape) = Len(data[x].shape) + 1
            /\ data[n].shape[axis + 1] = 1
            /\ \A k \in 1..Len(data[x].shape) :
                  data[n].shape[IF k <= axis THEN k ELSE k + 1] = data[x].shape[k]
            /\ gradient[n] # <<>> /\ gradient[x] # <<>>
                  => /\ Len(gradient[n][1].shape) = Len(gradient[x][1].shape) + 1
                     /\ gradient[n][1].shape[axis + 1] = 1
                     /\ \A k \in 1..Len(gradient[x][1].shape) :
                           gradient[n][1].shape[IF k <= axis THEN k ELSE k + 1]
                               = gradient[x][1].shape[k]

\* C26: for every operand shape and every axis from 0 to the operand's rank, the output
\* of an unsqueeze has the operand's shape with one axis of extent 1 inserted at the
\* axis; a forward() that computes makes the output at index 0 of that axis equal to
\* the operand's data, element by element; and backward() pushes to the operand the
\* node's gradient with that axis removed, an array of exactly the shape of the
\* operand's gradient, which replaces it when the operand's flag is true and is added
\* to it when the flag is false.
C26_UnsqueezeRoundTrip ==
    /\ []UnsqueezedShapes
    /\ [][\A n \in Unsqueezes :
             LET x == operand(nodes, n)
                 axis == nodes[n].axis
             IN  /\ (Forward(n) /\ ~computed[n])
                       => \A c \in Coordinates(data[x].shape) :
                            At(data'[n], InsertAt(c, axis + 1, 0)) = At(data[x], c)
                 /\ (Backward(n) /\ gradient[n] # <<>> /\ gradient[x] # <<>>)
                       => LET g == Squeezed(gradient[n][1], axis, gradient[x][1].shape)
                          IN  /\ Len(g.v) = Len(gradient[x][1].v)
                              /\ gradient'[x] = IF can_overwrite(overwrite, x) THEN <<g>>
                                                ELSE <<Plus(gradient[x][1], g)>>]_vars

\* the 2x2 leaf 1 2 3 4 unsqueezed at axis 1: the 2x1x2 output holds 1 2 3 4 and the
\* leaf's gradient is the 2x1x2 gradient 1 2 3 4 as a 2x2 array
C26_Witness ==
    /\ nodes = UnsqueezeGraph(<<2, 2>>, 1)
    /\ computed[2]
    /\ data[2] = [shape |-> <<2, 1, 2>>, v |-> <<F(1), F(2), F(3), F(4)>>]
    /\ pushed[1].count = 1
    /\ gradient[1] = <<[shape |-> <<2, 2>>, v |-> <<F(1), F(2), F(3), F(4)>>]>>

====
